---- MODULE Spec2Model ----
(***************************************************************************)
(* Calculation engine of the report generator                              *)
(* (src/scripts/calculation_engine.py): the percentage conversion tracker, *)
(* the value resolver, the formula evaluator, the level-by-level           *)
(* orchestrator and the output mapper.                                     *)
(*                                                                         *)
(* Python values are records [t, m, e, s]: t is the Python type ("none",   *)
(* "int", "float", "str"), a number is the decimal m / 10^e, a string is   *)
(* the sequence s of its characters.                                       *)
(***************************************************************************)
EXTENDS Integers, Sequences, FiniteSets, TLC

(***************************************************************************)
(* Python values                                                           *)
(***************************************************************************)
RECURSIVE Pow10(_)
Pow10(k) == IF k <= 0 THEN 1 ELSE 10 * Pow10(k - 1)

RECURSIVE Norm(_, _)
Norm(m, e) == IF e > 0 /\ m % 10 = 0 THEN Norm(m \div 10, e - 1)
              ELSE [m |-> m, e |-> e]

None == [t |-> "none", m |-> 0, e |-> 0, s |-> <<>>]
IntV(n) == [t |-> "int", m |-> n, e |-> 0, s |-> <<>>]
FloatV(m, e) == [t |-> "float", m |-> Norm(m, e).m, e |-> Norm(m, e).e, s |-> <<>>]
StrV(s) == [t |-> "str", m |-> 0, e |-> 0, s |-> s]

IsNum(v) == v.t \in {"int", "float"}

\* Python's == on two values: numbers compare by value (25 == 25.0).
PyEq(a, b) == IF IsNum(a) /\ IsNum(b) THEN Norm(a.m, a.e) = Norm(b.m, b.e)
              ELSE a = b

\* numeric_value > 1
GtOne(v) == v.m > Pow10(v.e)
\* numeric_value >= 1
GeOne(v) == v.m >= Pow10(v.e)

\* x / 100 on a float: exact in the decimal representation
Div100(v) == FloatV(v.m, v.e + 2)

DigitChars == <<"0", "1", "2", "3", "4", "5", "6", "7", "8", "9">>
IsDigit(c) == \E i \in 1..10 : DigitChars[i] = c
DigitVal(c) == (CHOOSE i \in 1..10 : DigitChars[i] = c) - 1

\* str.strip(): leading and trailing blanks removed
RECURSIVE LStrip(_)
LStrip(s) == IF Len(s) > 0 /\ s[1] = " " THEN LStrip(Tail(s)) ELSE s
RECURSIVE RStrip(_)
RStrip(s) == IF Len(s) > 0 /\ s[Len(s)] = " " THEN RStrip(SubSeq(s, 1, Len(s) - 1)) ELSE s
Strip(s) == RStrip(LStrip(s))

\* str.replace(c, ''): every occurrence of the character c removed
RemoveChar(s, c) == SelectSeq(s, LAMBDA x : x # c)

\* The digits-and-point body of a float literal, read left to right.
RECURSIVE ScanNumber(_, _, _, _, _, _)
ScanNumber(s, i, m, e, dot, nd) ==
    IF i > Len(s) THEN [ok |-> nd > 0, m |-> m, e |-> e]
    ELSE IF IsDigit(s[i])
         THEN ScanNumber(s, i + 1, m * 10 + DigitVal(s[i]), IF dot THEN e + 1 ELSE e, dot, nd + 1)
    ELSE IF s[i] = "." /\ ~dot THEN ScanNumber(s, i + 1, m, e, TRUE, nd)
    ELSE [ok |-> FALSE, m |-> 0, e |-> 0]

\* float(<str>): blanks stripped, an optional sign, digits with at most one
\* point; anything else raises ValueError (ok = FALSE).
FloatOfStr(s) ==
    LET b == Strip(s)
        signed == Len(b) > 0 /\ b[1] \in {"-", "+"}
        body == IF signed THEN Tail(b) ELSE b
        r == ScanNumber(body, 1, 0, 0, FALSE, 0)
        sm == IF signed /\ b[1] = "-" THEN 0 - r.m ELSE r.m
    IN  IF r.ok THEN [ok |-> TRUE, val |-> FloatV(sm, r.e)]
        ELSE [ok |-> FALSE, val |-> None]

\* float(value): TypeError on None, ValueError on an unparsable string.
PyFloat(v) ==
    IF v.t = "none" THEN [ok |-> FALSE, val |-> None]
    ELSE IF v.t = "str" THEN FloatOfStr(v.s)
    ELSE [ok |-> TRUE, val |-> FloatV(v.m, v.e)]

(***************************************************************************)
(* ConversionTracker and safe_percentage_conversion                        *)
(***************************************************************************)
Names == {"p", "q"}
Stages == {"resolve_value", "apply_fallback", "evaluate_formula",
           "write_to_generated_reports"}

\* Values handed to the tracker: "25%", 25, 0.25, 1, 1.0, 0, 150, "abc", "x%", None.
PctInputs == { StrV(<<"2", "5", "%">>), IntV(25), FloatV(25, 2), IntV(1), FloatV(1, 0),
               IntV(0), IntV(150), StrV(<<"a", "b", "c">>), StrV(<<"x", "%">>), None }

IsConvertedNever(conv, variable_name) == FALSE
is_converted(conv, variable_name) == variable_name \in conv

MarkConvertedLogOnly(conv, log, variable_name, stage, original_value, converted_value) ==
    [conv |-> conv,
     log  |-> Append(log, [variable |-> variable_name, stage |-> stage,
                           original |-> original_value,
                           converted |-> converted_value])]
mark_converted(conv, log, variable_name, stage, original_value, converted_value) ==
    [conv |-> conv \cup {variable_name},
     log  |-> Append(log, [variable |-> variable_name, stage |-> stage,
                           original |-> original_value,
                           converted |-> converted_value])]

\* The outcome of one call: the returned pair, or the exception that leaves
\* the function, together with the tracker afterwards.
Returned(value, was_converted, conv, log) ==
    [outcome |-> "returned", value |-> value, was_converted |-> was_converted,
     conv |-> conv, log |-> log]
Raised(conv, log) ==
    [outcome |-> "raised", value |-> None, was_converted |-> FALSE,
     conv |-> conv, log |-> log]

safe_percentage_conversion(value, variable_name, current_stage, conv, log) ==
    IF value = None THEN Returned(None, FALSE, conv, log)
    ELSE IF is_converted(conv, variable_name)
    THEN \* return float(value), False
         IF PyFloat(value).ok THEN Returned(PyFloat(value).val, FALSE, conv, log)
         ELSE Raised(conv, log)
    ELSE IF value.t = "str" /\ Len(Strip(value.s)) > 0
            /\ Strip(value.s)[Len(Strip(value.s))] = "%"
    THEN LET body == SubSeq(Strip(value.s), 1, Len(Strip(value.s)) - 1)
             f == FloatOfStr(body)
         IN  IF ~f.ok THEN Raised(conv, log)
             ELSE LET c == Div100(f.val)
                      mk == mark_converted(conv, log, variable_name, current_stage, value, c)
                  IN  Returned(c, TRUE, mk.conv, mk.log)
    ELSE LET f == PyFloat(value)
         IN  IF ~f.ok THEN Returned(value, FALSE, conv, log)
             ELSE IF GeOne(f.val)
             THEN LET c == Div100(f.val)
                      mk == mark_converted(conv, log, variable_name, current_stage, value, c)
                  IN  Returned(c, TRUE, mk.conv, mk.log)
             ELSE Returned(f.val, FALSE, conv, log)

(***************************************************************************)
(* Strings of numbers, and Python's eval on an arithmetic expression       *)
(***************************************************************************)
RECURSIVE DigitsOf(_)
DigitsOf(n) == IF n < 10 THEN <<DigitChars[n + 1]>>
               ELSE DigitsOf(n \div 10) \o <<DigitChars[(n % 10) + 1]>>

RECURSIVE PadDigits(_, _)
PadDigits(n, width) == IF width <= 0 THEN <<>>
                       ELSE PadDigits(n \div 10, width - 1) \o <<DigitChars[(n % 10) + 1]>>

Abs(n) == IF n < 0 THEN 0 - n ELSE n

\* str(value) of a number: "10" for an int, "0.25" or "25.0" for a float, and
\* the exponent form ("2.5e-05") for a float below 0.0001.
StrOfNum(v) ==
    LET a == Abs(v.m)
        sign == IF v.m < 0 THEN <<"-">> ELSE <<>>
        d == DigitsOf(a)
    IN  IF v.t = "int" THEN sign \o d
        ELSE IF a # 0 /\ a * 10000 < Pow10(v.e)
        THEN sign \o <<d[1]>>
                  \o (IF Len(d) > 1 THEN <<".">> \o Tail(d) ELSE <<>>)
                  \o <<"e", "-">> \o PadDigits(v.e - (Len(d) - 1), 2)
        ELSE sign \o DigitsOf(a \div Pow10(v.e)) \o <<".">>
                  \o (IF v.e = 0 THEN <<"0">> ELSE PadDigits(a % Pow10(v.e), v.e))

\* str.replace(pat, rep): every occurrence, left to right
RECURSIVE ReplaceAll(_, _, _)
ReplaceAll(s, pat, rep) ==
    IF Len(s) < Len(pat) \/ Len(pat) = 0 THEN s
    ELSE IF SubSeq(s, 1, Len(pat)) = pat
         THEN rep \o ReplaceAll(SubSeq(s, Len(pat) + 1, Len(s)), pat, rep)
    ELSE <<s[1]>> \o ReplaceAll(Tail(s), pat, rep)

\* re.findall(r'\{([^}]+)\}', formula): the placeholder names, in order, with
\* repetitions
RECURSIVE FindPlaceholders(_, _)
FindPlaceholders(s, i) ==
    IF i > Len(s) THEN <<>>
    ELSE IF s[i] = "{" /\ (\E j \in (i + 1)..Len(s) : s[j] = "}")
         THEN LET j == CHOOSE j \in (i + 1)..Len(s) :
                          s[j] = "}" /\ \A k \in (i + 1)..(j - 1) : s[k] # "}"
              IN  IF j > i + 1
                  THEN <<SubSeq(s, i + 1, j - 1)>> \o FindPlaceholders(s, j + 1)
                  ELSE FindPlaceholders(s, i + 1)
    ELSE FindPlaceholders(s, i + 1)

\* Decimal arithmetic of the evaluated expression. Division keeps four
\* decimal places of the quotient.
DecAdd(a, b) ==
    LET e == IF a.e > b.e THEN a.e ELSE b.e
    IN  Norm(a.m * Pow10(e - a.e) + b.m * Pow10(e - b.e), e)
DecNeg(a) == [m |-> 0 - a.m, e |-> a.e]
DecMul(a, b) == Norm(a.m * b.m, a.e + b.e)
DecDiv(a, b) ==
    LET num == Abs(a.m) * Pow10(b.e + 4)
        den == Abs(b.m) * Pow10(a.e)
        q == num \div den
    IN  Norm(IF (a.m < 0) # (b.m < 0) THEN 0 - q ELSE q, 4)

RECURSIVE SkipWs(_, _)
SkipWs(s, i) == IF i <= Len(s) /\ s[i] = " " THEN SkipWs(s, i + 1) ELSE i

RECURSIVE NumEnd(_, _)
NumEnd(s, i) == IF i <= Len(s) /\ (IsDigit(s[i]) \/ s[i] = ".") THEN NumEnd(s, i + 1) ELSE i

PErr(i) == [st |-> "error", val |-> [m |-> 0, e |-> 0], pos |-> i]

\* Of two outcomes: a syntax error is found before anything is evaluated; a
\* division by zero ends the evaluation.
Both(x, y) == IF x = "error" \/ y = "error" THEN "error"
              ELSE IF x = "zerodiv" \/ y = "zerodiv" THEN "zerodiv" ELSE "ok"

\* A number literal from i up to j; an integer literal with a leading zero
\* is a SyntaxError unless it is all zeros.
NumberOf(lit, r, j) ==
    IF ~r.ok \/ ((\A k \in 1..Len(lit) : lit[k] # ".")
                 /\ Len(lit) > 1 /\ lit[1] = "0" /\ r.m # 0)
    THEN PErr(j)
    ELSE [st |-> "ok", val |-> Norm(r.m, r.e), pos |-> j]
LiteralUpTo(s, i, j) ==
    NumberOf(SubSeq(s, i, j - 1), ScanNumber(SubSeq(s, i, j - 1), 1, 0, 0, FALSE, 0), j)
ParseNumber(s, i) == LiteralUpTo(s, i, NumEnd(s, i))

\* -x
Negated(r) == [r EXCEPT !.val = DecNeg(@)]
\* The ')' expected at k after the expression r
ClosedAt(s, r, k) ==
    IF r.st # "error" /\ k <= Len(s) /\ s[k] = ")" THEN [r EXCEPT !.pos = k + 1]
    ELSE PErr(k)
Closed(s, r) == ClosedAt(s, r, SkipWs(s, r.pos))
\* acc * r or acc / r
TermApply(op, acc, r) ==
    LET st == Both(acc.st, IF r.st = "ok" /\ op = "/" /\ r.val.m = 0
                           THEN "zerodiv" ELSE r.st)
    IN  [st |-> st,
         val |-> IF st # "ok" THEN [m |-> 0, e |-> 0]
                 ELSE IF op = "*" THEN DecMul(acc.val, r.val)
                 ELSE DecDiv(acc.val, r.val),
         pos |-> r.pos]
\* acc + r or acc - r
ExprApply(op, acc, r) ==
    LET st == Both(acc.st, r.st)
    IN  [st |-> st,
         val |-> IF st # "ok" THEN [m |-> 0, e |-> 0]
                 ELSE IF op = "+" THEN DecAdd(acc.val, r.val)
                 ELSE DecAdd(acc.val, DecNeg(r.val)),
         pos |-> r.pos]

\* Python's expression grammar over the sanitized alphabet, for the operators
\* + - * / with unary signs and parentheses (the formulas of the model use no
\* ** or //, no call and no tuple).
RECURSIVE ParseExpr(_, _)
RECURSIVE ParseTerm(_, _)
RECURSIVE ParseFactor(_, _)
RECURSIVE FactorAt(_, _)
RECURSIVE ExprRest(_, _)
RECURSIVE ExprRestAt(_, _, _)
RECURSIVE TermRest(_, _)
RECURSIVE TermRestAt(_, _, _)

FactorAt(s, j) ==
    IF j > Len(s) THEN PErr(j)
    ELSE IF s[j] = "-" THEN Negated(ParseFactor(s, j + 1))
    ELSE IF s[j] = "+" THEN ParseFactor(s, j + 1)
    ELSE IF s[j] = "(" THEN Closed(s, ParseExpr(s, j + 1))
    ELSE IF IsDigit(s[j]) \/ s[j] = "." THEN ParseNumber(s, j)
    ELSE PErr(j)
ParseFactor(s, i) == FactorAt(s, SkipWs(s, i))

TermRestAt(s, acc, j) ==
    IF acc.st = "error" \/ j > Len(s) \/ ~(s[j] \in {"*", "/"}) THEN acc
    ELSE TermRest(s, TermApply(s[j], acc, ParseFactor(s, j + 1)))
TermRest(s, acc) == TermRestAt(s, acc, SkipWs(s, acc.pos))

ParseTerm(s, i) == TermRest(s, ParseFactor(s, i))

ExprRestAt(s, acc, j) ==
    IF acc.st = "error" \/ j > Len(s) \/ ~(s[j] \in {"+", "-"}) THEN acc
    ELSE ExprRest(s, ExprApply(s[j], acc, ParseTerm(s, j + 1)))
ExprRest(s, acc) == ExprRestAt(s, acc, SkipWs(s, acc.pos))

ParseExpr(s, i) == ExprRest(s, ParseTerm(s, i))

\* eval(expression): the value, ZeroDivisionError, or another exception
EvalOutcome(expression, r) ==
    IF r.st = "error" \/ SkipWs(expression, r.pos) <= Len(expression)
    THEN [st |-> "error", val |-> None]
    ELSE IF r.st = "zerodiv" THEN [st |-> "zerodiv", val |-> None]
    ELSE [st |-> "ok", val |-> FloatV(r.val.m, r.val.e)]
PyEval(expression) == EvalOutcome(expression, ParseExpr(expression, 1))

(***************************************************************************)
(* The state of one run: the context, the catalog and the record stores    *)
(***************************************************************************)
VARIABLES
    converted_variables,  \* ConversionTracker.converted_variables
    conversion_log,       \* ConversionTracker.conversion_log
    raw_data,             \* CalculationContext.raw_data: the input record's fields
    calculated_values,    \* CalculationContext.calculated_values
    fallback_log,         \* CalculationContext.fallback_log
    calculation_log,      \* CalculationContext.calculation_log
    errors,               \* CalculationContext.errors
    warnings,             \* CalculationContext.warnings
    date_end,             \* CalculationContext.date_end, a day number
    date_start,           \* CalculationContext.date_start, NoDate when not given
    report_variables,     \* the variable catalog (Report_Variables)
    global_vars,          \* the global defaults (Global_Variables)
    client_variables,     \* the client's record of Client_Variables
    generated_reports,    \* the stored reports (Generated_Reports)
    store_ok,             \* FALSE when reading Generated_Reports raises
    calculation_order,    \* dependency_analysis['calculation_order']
    dependency_graph,     \* the graph parse_dependencies builds from the catalog
    request_cache,        \* webhook_server.request_cache, in insertion order
    clock,                \* what time.time() returns
    requests,             \* the webhook requests and where their handlers stand
    ytd_metadata,         \* CalculationContext.ytd_metadata
    validation_flags,     \* CalculationContext.validation_flags
    expected_flags,       \* CalculationContext.expected_flags
    report_fields,        \* the fields write_to_generated_reports prepares
    pc, level, idx,       \* where calculate_all_variables stands
    trace,                \* the steps of the run so far, in order
    call                  \* the latest call and what it returned

\* A key that a dict does not hold.
Absent == [t |-> "absent", m |-> 0, e |-> 0, s |-> <<>>]

\* The variable names of the model and the characters of each name.
VarChars == [a |-> <<"a">>, b |-> <<"b">>, p |-> <<"p">>, v |-> <<"v">>,
             z |-> <<"z">>, hhs |-> <<"h", "h", "s">>,
             hhs_ytd |-> <<"h", "h", "s", "_", "y", "t", "d">>]
AllVars == DOMAIN VarChars
NameOf(cs) == IF \E n \in AllVars : VarChars[n] = cs
              THEN CHOOSE n \in AllVars : VarChars[n] = cs
              ELSE "?"

client_id == "client1"
client_record_id == "recClient1"
NoDate == 0 - 1

\* Dates are day numbers in a calendar of twelve 30-day months.
MonthOf(day) == IF day = NoDate THEN 0 ELSE (((day - 1) \div 30) % 12) + 1
YearOf(day) == IF day = NoDate THEN 0 ELSE (day - 1) \div 360
\* CalculationContext.report_month, report_year
report_month == MonthOf(date_end)
report_year == YearOf(date_end)

\* The mutable part of the context, as the functions pass it on.
Ctx == [cv |-> calculated_values, fl |-> fallback_log,
        conv |-> converted_variables, log |-> conversion_log,
        cl |-> calculation_log, errors |-> errors, warnings |-> warnings]

(***************************************************************************)
(* evaluate_formula                                                        *)
(***************************************************************************)
EvalFail(error, conv, log) ==
    [result |-> None, error |-> error, expression |-> <<>>, has_expr |-> FALSE,
     substituted |-> <<>>, sub_done |-> FALSE,
     var_values |-> <<>>, conv |-> conv, log |-> log, evaluated |-> FALSE]

\* A percentage operand without the tracker: divided by 100 every time
PercentOperandUntracked(value, var_match, conv, log) ==
    IF PyFloat(value).ok THEN Returned(Div100(PyFloat(value).val), FALSE, conv, log)
    ELSE Returned(value, FALSE, conv, log)
\* A percentage operand: converted through the context's tracker
PercentOperand(value, var_match, conv, log) ==
    safe_percentage_conversion(value, var_match, "evaluate_formula", conv, log)

\* What the loop over the placeholders hands on: the error that ended it, the
\* expression and the operands so far, and the tracker.
Substituted(error, expression, var_values, conv, log) ==
    [error |-> error, expression |-> expression, var_values |-> var_values,
     conv |-> conv, log |-> log]

\* float(value_clean) of a string operand, None when it is blank, the string
\* itself when it is no number
FloatOrKeep(value, f) == IF f.ok THEN f.val ELSE value
CleanedOperand(value, value_clean) ==
    IF value_clean = <<>> THEN None ELSE FloatOrKeep(value, FloatOfStr(value_clean))
ParseOperand(value) ==
    IF value.t # "str" THEN value
    ELSE CleanedOperand(value, Strip(RemoveChar(value.s, ",")))

\* The loop over the placeholders: each value is looked up, converted when
\* its declared type is percentage, parsed when it is a string, and written
\* into the expression.
RECURSIVE SubstituteLoop(_, _, _, _, _, _, _)
RECURSIVE SubstituteParsed(_, _, _, _, _, _, _, _, _)
RECURSIVE SubstituteConverted(_, _, _, _, _, _, _)
RECURSIVE SubstituteOne(_, _, _, _, _, _, _, _)

SubstituteParsed(phs, expression, var_values, values, variable_types, var_match, conv, log, value) ==
    IF ~IsNum(value)
    THEN Substituted("Non-numeric value", expression, var_values, conv, log)
    ELSE SubstituteLoop(Tail(phs),
             ReplaceAll(expression, <<"{">> \o Head(phs) \o <<"}">>, StrOfNum(value)),
             Append(var_values, [name |-> var_match, value |-> value]),
             values, variable_types, conv, log)

SubstituteConverted(phs, expression, var_values, values, variable_types, var_match, cnv) ==
    IF cnv.outcome = "raised"
    THEN Substituted("Formula parsing error", expression, var_values, cnv.conv, cnv.log)
    ELSE SubstituteParsed(phs, expression, var_values, values, variable_types,
                          var_match, cnv.conv, cnv.log, ParseOperand(cnv.value))

SubstituteOne(phs, expression, var_values, values, variable_types, conv, log, var_match) ==
    IF var_match \notin AllVars \/ values[var_match] \in {Absent, None}
    THEN Substituted("Missing required variable", expression, var_values, conv, log)
    ELSE SubstituteConverted(phs, expression, var_values, values, variable_types,
             var_match,
             IF variable_types[var_match] = "percentage"
             THEN PercentOperand(values[var_match], var_match, conv, log)
             ELSE Returned(values[var_match], FALSE, conv, log))

SubstituteLoop(phs, expression, var_values, values, variable_types, conv, log) ==
    IF phs = <<>> THEN Substituted("", expression, var_values, conv, log)
    ELSE SubstituteOne(phs, expression, var_values, values, variable_types, conv, log,
                       NameOf(Head(phs)))

\* The characters the sanitized expression may hold: [0-9.+\-*/()\s]
AllowedCharOrLetter(c) ==
    IsDigit(c) \/ c \in {".", "+", "-", "*", "/", "(", ")", " ", "a", "b", "x", "e", ";"}
AllowedChar(c) == IsDigit(c) \/ c \in {".", "+", "-", "*", "/", "(", ")", " "}

\* re.match(r'^[0-9\.\+\-\*\/\(\)\s]+$', expression)
ValidExpression(expression) ==
    Len(expression) > 0 /\ \A i \in 1..Len(expression) : AllowedChar(expression[i])

\* .replace(' x ', ' * ').replace(' X ', ' * ').strip(), then a leading '='
\* cut off and the rest stripped again
NormalizeExpression(expression) ==
    LET e1 == ReplaceAll(expression, <<" ", "x", " ">>, <<" ", "*", " ">>)
        e2 == ReplaceAll(e1, <<" ", "X", " ">>, <<" ", "*", " ">>)
        e3 == Strip(e2)
    IN  IF Len(e3) > 0 /\ e3[1] = "=" THEN Strip(Tail(e3)) ELSE e3

\* What the try block around eval returns: the float of the result, 0 with
\* a note on ZeroDivisionError, nothing on any other exception.
ResultOfEvalZeroDivFatal(r) ==
    [result |-> IF r.st = "ok" THEN r.val ELSE None,
     error |-> IF r.st = "ok" THEN ""
               ELSE IF r.st = "zerodiv" THEN "Division by zero in formula"
               ELSE "Evaluation error"]
ResultOfEval(r) ==
    [result |-> IF r.st = "ok" THEN r.val
                ELSE IF r.st = "zerodiv" THEN IntV(0) ELSE None,
     error |-> IF r.st = "ok" THEN ""
               ELSE IF r.st = "zerodiv" THEN "Division by zero in formula"
               ELSE "Evaluation error"]

\* The returned tuple (result, error, expression, var_values) and the tracker
\* afterwards; substituted is the expression the character check saw and
\* evaluated tells whether eval was called.
EvaluationResult(sub, expression, r) ==
    [result |-> r.result, error |-> r.error,
     expression |-> expression, has_expr |-> TRUE,
     substituted |-> expression, sub_done |-> TRUE,
     var_values |-> sub.var_values,
     conv |-> sub.conv, log |-> sub.log, evaluated |-> TRUE]
EvaluateExpression(sub, expression) ==
    IF ~ValidExpression(expression)
    THEN [EvalFail("Invalid characters in formula", sub.conv, sub.log)
            EXCEPT !.substituted = expression, !.sub_done = TRUE]
    ELSE EvaluationResult(sub, expression, ResultOfEval(PyEval(expression)))
EvaluateSubstituted(sub) ==
    IF sub.error # "" THEN EvalFail(sub.error, sub.conv, sub.log)
    ELSE EvaluateExpression(sub, NormalizeExpression(sub.expression))
evaluate_formula(formula, values, variable_types, conv, log) ==
    IF formula = <<>> THEN EvalFail("No formula provided", conv, log)
    ELSE EvaluateSubstituted(
             SubstituteLoop(FindPlaceholders(formula, 1), formula, <<>>,
                            values, variable_types, conv, log))

(***************************************************************************)
(* CalculationContext                                                      *)
(***************************************************************************)
add_value(ctx, variable, value, source) ==
    [ctx EXCEPT !.cv = [@ EXCEPT ![variable] = value],
                !.fl = IF source # "calculated"
                       THEN Append(@, [variable |-> variable, value |-> value,
                                       source |-> source])
                       ELSE @]

\* calculated_values first, then the raw record; a missing key reads as None
get_value(ctx, variable) ==
    IF ctx.cv[variable] # Absent THEN ctx.cv[variable]
    ELSE IF raw_data[variable] # Absent THEN raw_data[variable]
    ELSE None

GetAllValuesRawWins(ctx) ==
    [x \in AllVars |-> IF raw_data[x] # Absent THEN raw_data[x] ELSE ctx.cv[x]]
\* the raw record updated with calculated_values: a calculated entry hides
\* the raw field of the same name
get_all_values(ctx) ==
    [x \in AllVars |-> IF ctx.cv[x] # Absent THEN ctx.cv[x] ELSE raw_data[x]]

(***************************************************************************)
(* find_previous_period_value, apply_fallback                              *)
(***************************************************************************)
\* The stored reports of the client that are full months and end inside the
\* window before the current period
PreviousPeriods(client, comparison_date, min_date) ==
    { i \in DOMAIN generated_reports :
        /\ generated_reports[i].client = client
        /\ generated_reports[i].is_full_month
        /\ generated_reports[i].date_end # NoDate
        /\ generated_reports[i].date_end < comparison_date
        /\ generated_reports[i].date_end > min_date }
\* date_start if available, otherwise date_end
ComparisonDate(current_date_start, current_date_end) ==
    IF current_date_start # NoDate THEN current_date_start ELSE current_date_end
LeastRecent(withValue) ==
    CHOOSE i \in withValue : \A j \in withValue :
        generated_reports[i].date_end <= generated_reports[j].date_end
\* sorted by date_end, most recent first; equal dates keep their order
MostRecent(withValue) ==
    CHOOSE i \in withValue : \A j \in withValue :
        \/ generated_reports[j].date_end < generated_reports[i].date_end
        \/ (generated_reports[j].date_end = generated_reports[i].date_end /\ i <= j)
FirstWithValue(variable, withValue) ==
    IF withValue = {} THEN None
    ELSE generated_reports[MostRecent(withValue)].fields[variable]
find_previous_period_value(variable, client, current_date_end, max_months, current_date_start) ==
    FirstWithValue(variable,
        { i \in PreviousPeriods(client,
                                ComparisonDate(current_date_start, current_date_end),
                                current_date_end - max_months * 30) :
            generated_reports[i].fields[variable] \notin {Absent, None} })

PreviousPeriodFound(value, max_periods) ==
    IF value # None
    THEN [value |-> value,
          source |-> "previous_period(" \o ToString(max_periods) \o "mo)"]
    ELSE [value |-> None, source |-> "fallback_failed(previous_period)"]
apply_fallback(fallback_type, variable, max_periods) ==
    IF fallback_type = "" THEN [value |-> None, source |-> "no_fallback"]
    ELSE IF fallback_type = "0" THEN [value |-> IntV(0), source |-> "zero_fallback"]
    ELSE IF fallback_type = "previous_period"
    THEN IF date_end = NoDate THEN [value |-> None, source |-> "invalid_date_end"]
         ELSE PreviousPeriodFound(
                  find_previous_period_value(variable, client_id, date_end, max_periods,
                                             date_start),
                  max_periods)
    ELSE IF fallback_type = "global_default"
    THEN IF global_vars[variable] # Absent
         THEN [value |-> global_vars[variable], source |-> "global_default"]
         ELSE [value |-> None, source |-> "fallback_failed(global_default)"]
    ELSE IF fallback_type = "calculation"
    THEN [value |-> None, source |-> "calculation_needed"]
    ELSE [value |-> None, source |-> "fallback_failed(" \o fallback_type \o ")"]

(***************************************************************************)
(* resolve_value                                                           *)
(***************************************************************************)
\* The conversion of a percentage value inside a try block: an exception
\* leaves the value and the tracker as they were.
KeepOnRaise(ctx, value, r) ==
    IF r.outcome = "raised" THEN [value |-> value, ctx |-> ctx]
    ELSE [value |-> r.value, ctx |-> [ctx EXCEPT !.conv = r.conv, !.log = r.log]]
ConvertOrKeep(ctx, value, variable, stage) ==
    KeepOnRaise(ctx, value,
                safe_percentage_conversion(value, variable, stage, ctx.conv, ctx.log))

\* The client's override coerced by Data_Type
OverrideByType(ctx, client_value, variable, data_type) ==
    IF data_type = "percentage"
    THEN ConvertOrKeep(ctx, client_value, variable, "resolve_value")
    ELSE IF data_type \in {"number", "currency"}
    THEN [value |-> FloatOrKeep(client_value, PyFloat(client_value)), ctx |-> ctx]
    ELSE IF data_type = "text" /\ IsNum(client_value)
    THEN [value |-> StrV(StrOfNum(client_value)), ctx |-> ctx]
    ELSE [value |-> client_value, ctx |-> ctx]
StoreOverride(variable, c) ==
    [ctx |-> add_value(c.ctx, variable, c.value, "client_static"),
     ret |-> c.value, tried |-> <<>>]

\* The client_static branch: the client's override, coerced by Data_Type and
\* stored with source 'client_static'.
StaticOverride(ctx, variable, var_config) ==
    StoreOverride(variable,
                  OverrideByType(ctx, client_variables.fields[variable], variable,
                                 var_config.Data_Type))

HasOverride(variable, var_config) ==
    /\ var_config.Source_Type = "client_static"
    /\ client_variables.ok
    /\ client_variables.fields[variable] # Absent

NoSlot(ctx) == [done |-> FALSE, ctx |-> ctx, ret |-> None]
\* A 'calculation' slot: the formula's result stored as calculated_fallback
CalculationSlot(ctx, variable, ev) ==
    IF ev.error = "" /\ ev.result # None
    THEN [done |-> TRUE, ret |-> ev.result,
          ctx |-> add_value([ctx EXCEPT !.conv = ev.conv, !.log = ev.log],
                            variable, ev.result, "calculated_fallback")]
    ELSE NoSlot([ctx EXCEPT !.conv = ev.conv, !.log = ev.log])
\* A slot that found a value: stored under the slot's source label
FoundSlot(variable, source, c) ==
    [done |-> TRUE, ret |-> c.value,
     ctx |-> add_value(c.ctx, variable, c.value, source)]
SlotOutcome(ctx, variable, var_config, fb) ==
    IF fb.source = "calculation_needed"
    THEN IF var_config.formula = <<>> THEN NoSlot(ctx)
         ELSE CalculationSlot(ctx, variable,
                  evaluate_formula(var_config.formula, get_all_values(ctx),
                                   [k \in AllVars |-> var_config.Data_Type],
                                   ctx.conv, ctx.log))
    ELSE IF fb.value # None
    THEN FoundSlot(variable, fb.source,
                   IF var_config.Data_Type = "percentage"
                   THEN ConvertOrKeep(ctx, fb.value, variable, "apply_fallback")
                   ELSE [value |-> fb.value, ctx |-> ctx])
    ELSE NoSlot(ctx)

\* One fallback slot: apply_fallback, then the formula for 'calculation', or
\* the conversion and recording of the value found.
TrySlot(ctx, variable, var_config, fallback_type) ==
    SlotOutcome(ctx, variable, var_config,
                apply_fallback(fallback_type, variable, var_config.previous_period_max))

SlotType(var_config, n) ==
    IF n = 1 THEN var_config.fallback_1 ELSE var_config.fallback_2
AfterSecond(r2, tried) ==
    [ctx |-> r2.ctx, ret |-> IF r2.done THEN r2.ret ELSE None, tried |-> tried]
SecondSlot(ctx, variable, var_config, second, tried) ==
    IF SlotType(var_config, second) = ""
    THEN [ctx |-> ctx, ret |-> None, tried |-> tried]
    ELSE AfterSecond(TrySlot(ctx, variable, var_config, SlotType(var_config, second)),
                     Append(tried, second))
AfterFirst(variable, var_config, first, second, r1) ==
    IF r1.done THEN [ctx |-> r1.ctx, ret |-> r1.ret, tried |-> <<first>>]
    ELSE SecondSlot(r1.ctx, variable, var_config, second, <<first>>)

\* The two slots in the order given; tried lists the slots consulted.
WalkSlots(ctx, variable, var_config, first, second) ==
    IF SlotType(var_config, first) = ""
    THEN SecondSlot(ctx, variable, var_config, second, <<>>)
    ELSE AfterFirst(variable, var_config, first, second,
                    TrySlot(ctx, variable, var_config, SlotType(var_config, first)))

Existing(ctx, variable) ==
    [ctx |-> ctx, ret |-> get_value(ctx, variable), tried |-> <<>>]

ResolveExistingFirst(ctx, variable, var_config) ==
    IF get_value(ctx, variable) # None THEN Existing(ctx, variable)
    ELSE IF HasOverride(variable, var_config)
    THEN StaticOverride(ctx, variable, var_config)
    ELSE WalkSlots(ctx, variable, var_config, 1, 2)
ResolveSlot2First(ctx, variable, var_config) ==
    IF HasOverride(variable, var_config)
    THEN StaticOverride(ctx, variable, var_config)
    ELSE IF get_value(ctx, variable) # None THEN Existing(ctx, variable)
    ELSE WalkSlots(ctx, variable, var_config, 2, 1)
ResolveNoShortCircuit(ctx, variable, var_config) ==
    IF HasOverride(variable, var_config)
    THEN StaticOverride(ctx, variable, var_config)
    ELSE WalkSlots(ctx, variable, var_config, 1, 2)
\* The override of a client_static variable first, then a value the context
\* already holds, then the fallback slots
resolve_value(ctx, variable, var_config) ==
    IF HasOverride(variable, var_config)
    THEN StaticOverride(ctx, variable, var_config)
    ELSE IF get_value(ctx, variable) # None THEN Existing(ctx, variable)
    ELSE WalkSlots(ctx, variable, var_config, 1, 2)

vars == <<converted_variables, conversion_log, raw_data, calculated_values,
          fallback_log, calculation_log, errors, warnings, date_end, date_start,
          report_variables, global_vars, client_variables, generated_reports,
          store_ok, calculation_order, dependency_graph, request_cache,
          clock, requests, ytd_metadata,
          validation_flags, expected_flags, report_fields, pc, level, idx,
          trace, call>>

envVars == <<raw_data, date_end, date_start, report_variables, global_vars,
             client_variables, generated_reports, store_ok, calculation_order,
             dependency_graph, request_cache, clock, requests>>
ctxVars == <<calculated_values, fallback_log, calculation_log, errors, warnings>>
runVars == <<ytd_metadata, validation_flags, expected_flags, report_fields,
             pc, level, idx, trace>>

EmptyDict == [x \in AllVars |-> Absent]

\* A catalog entry; in_catalog is FALSE for a name the catalog does not hold.
\* A rule string, split as the code splits it: whether it names 'integer',
\* the comparisons between the connectives, and the connectives in order.
NoRule == [kind |-> "", integer |-> FALSE, conds |-> <<>>, ops |-> <<>>]

VarConfig(src, dt, formula, f1, f2) ==
    [in_catalog |-> TRUE, Source_Type |-> src, Data_Type |-> dt,
     formula |-> formula, fallback_1 |-> f1, fallback_2 |-> f2,
     previous_period_max |-> 6, Validation_Rules |-> NoRule,
     Expected_Values |-> NoRule, sf_domain |-> FALSE]
PlainNumber == VarConfig("report", "number", <<>>, "", "")
NotInCatalog == [PlainNumber EXCEPT !.in_catalog = FALSE]

NoMetadata == [reason |-> "", months |-> [mo \in 1..12 |-> Absent],
               ytd_value |-> None]

\* CalculationContext.__init__: nothing calculated or logged yet
EmptyContext ==
    /\ calculated_values = EmptyDict
    /\ fallback_log = <<>>
    /\ calculation_log = <<>>
    /\ errors = <<>>
    /\ warnings = <<>>
    /\ ytd_metadata = NoMetadata
    /\ validation_flags = <<>>
    /\ expected_flags = <<>>

\* No run of calculate_all_variables is under way.
\* The webhook server is not in the picture.
NoServer ==
    /\ request_cache = <<>>
    /\ clock = 0
    /\ requests = <<>>
NoRun ==
    /\ report_fields = EmptyDict
    /\ pc = "idle"
    /\ level = 0
    /\ idx = 0
    /\ trace = <<>>
    /\ calculation_order = [l \in 0..5 |-> <<>>]
    /\ dependency_graph = <<>>
    /\ NoServer
    /\ store_ok = TRUE

\* ConversionTracker.__init__
EmptyTracker ==
    /\ converted_variables = {}
    /\ conversion_log = <<>>

NoEnvironment ==
    /\ raw_data = EmptyDict
    /\ date_end = NoDate
    /\ date_start = NoDate
    /\ report_variables = [x \in AllVars |-> PlainNumber]
    /\ global_vars = EmptyDict
    /\ client_variables = [ok |-> FALSE, fields |-> EmptyDict]
    /\ generated_reports = <<>>

SetCtx(ctx) ==
    /\ calculated_values' = ctx.cv
    /\ fallback_log' = ctx.fl
    /\ converted_variables' = ctx.conv
    /\ conversion_log' = ctx.log
    /\ calculation_log' = ctx.cl
    /\ errors' = ctx.errors
    /\ warnings' = ctx.warnings

(***************************************************************************)
(* parse_numeric_value, validate_value, check_expected_range               *)
(***************************************************************************)
DecLt(a, b) == a.m * Pow10(b.e) < b.m * Pow10(a.e)
DecEq(a, b) == a.m * Pow10(b.e) = b.m * Pow10(a.e)

\* float of a number; of a string with '$', ',' and blanks removed, divided
\* by 100 when it ends in '%'; ok = FALSE where the code raises ValueError
parse_numeric_value(value) ==
    IF value = None THEN [ok |-> FALSE, val |-> None]
    ELSE IF IsNum(value) THEN [ok |-> TRUE, val |-> FloatV(value.m, value.e)]
    ELSE
    LET str_value == RemoveChar(RemoveChar(RemoveChar(Strip(value.s), "$"), ","), " ")
        n == Len(str_value)
        body == FloatOfStr(SubSeq(str_value, 1, n - 1))
    IN  IF n > 0 /\ str_value[n] = "%"
        THEN (IF body.ok THEN [ok |-> TRUE, val |-> Div100(body.val)]
              ELSE [ok |-> FALSE, val |-> None])
        ELSE FloatOfStr(str_value)

\* One comparison of the numeric value with its threshold
ConditionHolds(numeric_value, cond) ==
    CASE cond.cmp = ">=" -> ~DecLt(numeric_value, cond.thr)
      [] cond.cmp = "<=" -> ~DecLt(cond.thr, numeric_value)
      [] cond.cmp = ">" -> DecLt(cond.thr, numeric_value)
      [] cond.cmp = "<" -> DecLt(numeric_value, cond.thr)
      [] OTHER -> DecEq(numeric_value, cond.thr)

\* The connectives read as a logical expression is: 'and' before 'or'.
RECURSIVE CombineResultsAndFirst(_, _, _, _)
CombineResultsAndFirst(final_result, results, operators, i) ==
    IF i > Len(operators) \/ i + 1 > Len(results) THEN final_result
    ELSE IF operators[i] = "and"
    THEN CombineResultsAndFirst(final_result /\ results[i + 1], results, operators, i + 1)
    ELSE final_result \/ CombineResultsAndFirst(results[i + 1], results, operators, i + 1)

\* final_result = results[0], then each connective applied to the result so
\* far and the next result, left to right
RECURSIVE CombineResults(_, _, _, _)
CombineResults(final_result, results, operators, i) ==
    IF i > Len(operators) \/ i + 1 > Len(results) THEN final_result
    ELSE CombineResults(IF operators[i] = "and"
                        THEN final_result /\ results[i + 1]
                        ELSE final_result \/ results[i + 1],
                        results, operators, i + 1)

\* The comparisons of a rule on a value: FALSE when the value is not numeric
\* or a comparison cannot be parsed
CheckConditions(value, rule) ==
    LET numeric == parse_numeric_value(value)
        results == [i \in DOMAIN rule.conds |-> ConditionHolds(numeric.val, rule.conds[i])]
    IN  IF ~numeric.ok THEN FALSE
        ELSE IF \E i \in DOMAIN rule.conds :
                   rule.conds[i].cmp \notin {">=", "<=", ">", "<", "="}
        THEN FALSE
        ELSE IF results = <<>> THEN TRUE
        ELSE CombineResults(results[1], results, rule.ops, 1)

validate_value(value, validation_rules) ==
    IF validation_rules.kind = "" \/ value = None THEN TRUE
    ELSE IF validation_rules.kind = "not_empty"
    THEN (IF value.t = "str" THEN Strip(value.s) # <<>> ELSE TRUE)
    ELSE IF validation_rules.integer /\ ~PyFloat(value).ok THEN FALSE
    ELSE IF validation_rules.integer /\ PyFloat(value).val.e # 0 THEN FALSE
    ELSE IF validation_rules.integer /\ validation_rules.conds = <<>> THEN TRUE
    ELSE CheckConditions(value, validation_rules)

check_expected_range(value, expected_values) ==
    IF expected_values.kind = "" \/ value = None THEN TRUE
    ELSE IF expected_values.kind \in {"optional", "not_empty"} THEN TRUE
    ELSE CheckConditions(value, expected_values)

\* The order in which the model walks a dictionary's keys
VarOrder == <<"p", "hhs", "a", "b", "v", "hhs_ytd", "z">>

\* The loop with the expected range looked at only when the hard rule passed
RECURSIVE ValidateLoopElif(_, _)
ValidateLoopElif(ctx, n) ==
    IF n = 0 THEN [ctx |-> ctx, validation_flags |-> <<>>, expected_flags |-> <<>>]
    ELSE
    LET before == ValidateLoopElif(ctx, n - 1)
        var_name == VarOrder[n]
        value == ctx.cv[var_name]
        var_config == report_variables[var_name]
        bad == ~validate_value(value, var_config.Validation_Rules)
        odd == ~bad /\ ~check_expected_range(value, var_config.Expected_Values)
        c1 == IF bad THEN [before.ctx EXCEPT !.errors =
                             Append(@, [msg |-> "validation_error",
                                        variable |-> var_name, detail |-> ""])]
              ELSE before.ctx
        c2 == IF odd THEN [c1 EXCEPT !.warnings =
                             Append(@, [msg |-> "expected_range_warning",
                                        variable |-> var_name, detail |-> ""])]
              ELSE c1
    IN  IF value = Absent \/ ~var_config.in_catalog THEN before
        ELSE [ctx |-> c2,
              validation_flags |-> IF bad
                  THEN Append(before.validation_flags,
                              [variable |-> var_name, value |-> value])
                  ELSE before.validation_flags,
              expected_flags |-> IF odd
                  THEN Append(before.expected_flags,
                              [variable |-> var_name, value |-> value])
                  ELSE before.expected_flags]

\* The loop of validate_all_calculated_values up to key number n: the flags
\* found and the context with a message for each
RECURSIVE ValidateLoop(_, _)
ValidateLoop(ctx, n) ==
    IF n = 0 THEN [ctx |-> ctx, validation_flags |-> <<>>, expected_flags |-> <<>>]
    ELSE
    LET before == ValidateLoop(ctx, n - 1)
        var_name == VarOrder[n]
        value == ctx.cv[var_name]
        var_config == report_variables[var_name]
        bad == ~validate_value(value, var_config.Validation_Rules)
        odd == ~check_expected_range(value, var_config.Expected_Values)
        c1 == IF bad THEN [before.ctx EXCEPT !.errors =
                             Append(@, [msg |-> "validation_error",
                                        variable |-> var_name, detail |-> ""])]
              ELSE before.ctx
        c2 == IF odd THEN [c1 EXCEPT !.warnings =
                             Append(@, [msg |-> "expected_range_warning",
                                        variable |-> var_name, detail |-> ""])]
              ELSE c1
    IN  IF value = Absent \/ ~var_config.in_catalog THEN before
        ELSE [ctx |-> c2,
              validation_flags |-> IF bad
                  THEN Append(before.validation_flags,
                              [variable |-> var_name, value |-> value])
                  ELSE before.validation_flags,
              expected_flags |-> IF odd
                  THEN Append(before.expected_flags,
                              [variable |-> var_name, value |-> value])
                  ELSE before.expected_flags]

validate_all_calculated_values(ctx) == ValidateLoop(ctx, Len(VarOrder))

(***************************************************************************)
(* calculate_ytd_value                                                     *)
(***************************************************************************)
NoData == StrV(<<"N", "o", " ", "D", "a", "t", "a">>)
Missing == StrV(<<"m", "i", "s", "s", "i", "n", "g">>)

\* The three ways a stored report is matched to the client
ClientMatch(rec) ==
    \/ /\ client_record_id # ""
       /\ \/ rec.client_record_id # "" /\ rec.client_record_id = client_record_id
          \/ rec.client # "" /\ rec.client = client_record_id
    \/ client_id # "" /\ rec.client # "" /\ rec.client = client_id

\* The filters without the full-month test
YtdRecordMatchesPartial(rec, base_variable, previous_months) ==
    /\ ClientMatch(rec)
    /\ rec.year # 0 /\ rec.year = report_year
    /\ rec.month \in previous_months
    /\ rec.fields[base_variable] \notin {Absent, None}
\* A stored report that passes the five filters
YtdRecordMatches(rec, base_variable, previous_months) ==
    /\ ClientMatch(rec)
    /\ rec.year # 0 /\ rec.year = report_year
    /\ rec.is_full_month
    /\ rec.month \in previous_months
    /\ rec.fields[base_variable] \notin {Absent, None}

\* float(value), ',' and '$' removed from a string first
YtdFloat(value) ==
    IF value.t = "str" THEN FloatOfStr(RemoveChar(RemoveChar(value.s, ","), "$"))
    ELSE PyFloat(value)

SetMax(S) == CHOOSE x \in S : \A y \in S : y <= x

\* months_with_data: for each month the value of the last matching record
\* whose value converts; Absent for a month without one
MonthsWithData(base_variable, previous_months) ==
    [mo \in 1..12 |->
        LET found == { i \in DOMAIN generated_reports :
                         /\ YtdRecordMatches(generated_reports[i], base_variable,
                                             previous_months)
                         /\ generated_reports[i].month = mo
                         /\ YtdFloat(generated_reports[i].fields[base_variable]).ok }
        IN  IF found = {} THEN Absent
            ELSE YtdFloat(generated_reports[SetMax(found)].fields[base_variable]).val]

\* sum(months_with_data.values()) over the months up to mo
RECURSIVE SumMonths(_, _)
SumMonths(months_with_data, mo) ==
    IF mo = 0 THEN [m |-> 0, e |-> 0]
    ELSE IF months_with_data[mo] = Absent THEN SumMonths(months_with_data, mo - 1)
    ELSE DecAdd(SumMonths(months_with_data, mo - 1), months_with_data[mo])

\* The current month counted among the previous ones
PreviousMonthsThrough(month) == 1..month
\* list(range(1, report_month)), empty without a report month
PreviousMonths(month) == IF month = 0 THEN {} ELSE 1..(month - 1)

\* The returned pair (value, metadata) and the context, which gains an error
\* when reading the stored reports fails
calculate_ytd_value(ctx, base_variable) ==
    LET previous_months == PreviousMonths(report_month)
        current_hhs == get_value(ctx, "hhs")
        months_with_data == MonthsWithData(base_variable, previous_months)
        none_found == \A mo \in 1..12 : months_with_data[mo] = Absent
        all_missing == [mo \in 1..12 |-> IF mo \in previous_months THEN Missing ELSE Absent]
        previous_months_total == SumMonths(months_with_data, 12)
        total == IF current_hhs # None /\ YtdFloat(current_hhs).ok
                 THEN DecAdd(previous_months_total, YtdFloat(current_hhs).val)
                 ELSE previous_months_total
        ytd_total == FloatV(total.m, total.e)
        month_details == [mo \in 1..12 |->
                            IF mo \in previous_months
                            THEN (IF months_with_data[mo] # Absent
                                  THEN months_with_data[mo] ELSE Missing)
                            ELSE IF mo = report_month /\ current_hhs # None
                            THEN current_hhs
                            ELSE Absent]
    IN  IF previous_months = {}
        THEN (IF current_hhs # None
              THEN [value |-> current_hhs, ctx |-> ctx,
                    metadata |-> [reason |-> "No previous months in current year, using current month HHS value",
                                  months |-> [mo \in 1..12 |-> Absent],
                                  ytd_value |-> current_hhs]]
              ELSE [value |-> NoData, ctx |-> ctx,
                    metadata |-> [reason |-> "No previous months and no current month HHS value available",
                                  months |-> [mo \in 1..12 |-> Absent],
                                  ytd_value |-> IntV(0)]])
        ELSE IF ~store_ok
        THEN [value |-> NoData,
              ctx |-> [ctx EXCEPT !.errors =
                          Append(@, [msg |-> "Error in YTD calculation",
                                     variable |-> "hhs_ytd", detail |-> ""])],
              metadata |-> [reason |-> "YTD calculation failed",
                            months |-> [mo \in 1..12 |-> Absent],
                            ytd_value |-> IntV(0)]]
        ELSE IF none_found
        THEN (IF current_hhs # None
              THEN [value |-> current_hhs, ctx |-> ctx,
                    metadata |-> [reason |-> "No historical data found, using current month HHS value",
                                  months |-> all_missing,
                                  ytd_value |-> current_hhs]]
              ELSE [value |-> NoData, ctx |-> ctx,
                    metadata |-> [reason |-> "No historical data and no current month HHS value available",
                                  months |-> all_missing,
                                  ytd_value |-> IntV(0)]])
        ELSE [value |-> ytd_total, ctx |-> ctx,
              metadata |-> [reason |-> "", months |-> month_details,
                            ytd_value |-> ytd_total]]

(***************************************************************************)
(* calculate_all_variables, step by step                                   *)
(***************************************************************************)
Message(msg, variable, detail) ==
    [msg |-> msg, variable |-> variable, detail |-> detail]

\* A level-0 variable without a value counted as an error
Level0OutcomeFatal(var, r) ==
    IF r.ret # None THEN [ctx |-> r.ctx, ret |-> r.ret]
    ELSE [ctx |-> [r.ctx EXCEPT !.errors =
                      Append(@, Message("Level 0 variable has no value", var, ""))],
          ret |-> None]
\* One variable of level 0
Level0Outcome(var, r) ==
    IF r.ret # None THEN [ctx |-> r.ctx, ret |-> r.ret]
    ELSE [ctx |-> [r.ctx EXCEPT !.warnings =
                      Append(@, Message("Level 0 variable has no value", var, ""))],
          ret |-> None]
ResolveLevel0Var(ctx, var) ==
    IF ~report_variables[var].in_catalog THEN [ctx |-> ctx, ret |-> None]
    ELSE Level0Outcome(var, resolve_value(ctx, var, report_variables[var]))

\* The values the formula's placeholders are looked up to, in order
LookedUp(formula, all_values) ==
    LET phs == FindPlaceholders(formula, 1)
    IN  [i \in DOMAIN phs |->
            [name |-> NameOf(phs[i]),
             value |-> IF NameOf(phs[i]) \in AllVars
                       THEN all_values[NameOf(phs[i])] ELSE Absent]]

\* What became of one variable of a level: the context afterwards, the kind
\* of step, its value, the operands of its formula and what they were looked
\* up to
VarOutcome(ctx, kind, value, operands, lookups) ==
    [ctx |-> ctx, kind |-> kind, value |-> value, operands |-> operands,
     lookups |-> lookups]

\* The value of the fallback chain left as the resolver stored it
FallbackAfterErrorUntagged(var, ev, lookups, fb) ==
    VarOutcome(fb.ctx, "error", fb.ret, ev.var_values, lookups)
\* After an evaluation error: the fallback chain, its value stored with
\* source fallback_after_error
FallbackAfterError(var, ev, lookups, fb) ==
    VarOutcome(IF fb.ret # None
               THEN add_value(fb.ctx, var, fb.ret, "fallback_after_error")
               ELSE fb.ctx,
               "error", fb.ret, ev.var_values, lookups)

\* The result stored and logged, or the error logged and the fallbacks tried
AfterEvaluation(ctx, var, lvl, lookups, ev) ==
    IF ev.error # ""
    THEN FallbackAfterError(var, ev, lookups,
             resolve_value([ctx EXCEPT !.conv = ev.conv, !.log = ev.log,
                                       !.errors = Append(@,
                                           Message("Error calculating", var, ev.error))],
                           var, report_variables[var]))
    ELSE VarOutcome([add_value([ctx EXCEPT !.conv = ev.conv, !.log = ev.log],
                               var, ev.result, "calculated")
                       EXCEPT !.cl = Append(@, [variable |-> var, type |-> "formula",
                                                result |-> ev.result, level |-> lvl,
                                                expression |-> ev.expression,
                                                variables |-> ev.var_values])],
                    "calculated", ev.result, ev.var_values, lookups)

\* One variable of a level from 1 to 5
CalculateVar(ctx, var, lvl) ==
    IF ~report_variables[var].in_catalog
    THEN VarOutcome([ctx EXCEPT !.errors =
                        Append(@, Message("Variable not found in Report_Variables", var, ""))],
                    "not_in_catalog", None, <<>>, <<>>)
    ELSE IF report_variables[var].Source_Type # "client_historical"
            /\ report_variables[var].formula = <<>>
    THEN VarOutcome([ctx EXCEPT !.errors =
                        Append(@, Message("No formula for calculated variable", var, ""))],
                    "no_formula", None, <<>>, <<>>)
    ELSE IF report_variables[var].Source_Type = "client_historical"
    THEN VarOutcome(ctx, "historical", None, <<>>, <<>>)
    ELSE AfterEvaluation(ctx, var, lvl,
             LookedUp(report_variables[var].formula, get_all_values(ctx)),
             evaluate_formula(report_variables[var].formula, get_all_values(ctx),
                              [k \in AllVars |-> IF report_variables[k].in_catalog
                                                 THEN report_variables[k].Data_Type
                                                 ELSE ""],
                              ctx.conv, ctx.log))

\* The block after level 3
\* "No Data" stored as the value of hhs_ytd
YtdStoredAsText(y) ==
    [ctx |-> [add_value(y.ctx, "hhs_ytd", y.value, "calculated_ytd") EXCEPT !.cl =
                 Append(@, [variable |-> "hhs_ytd", type |-> "ytd_calculation",
                            result |-> y.value, level |-> 3,
                            expression |-> <<>>, variables |-> <<>>])],
     value |-> y.value, metadata |-> y.metadata]
YtdStored(y) ==
    IF y.value = NoData
    THEN [ctx |-> [add_value(y.ctx, "hhs_ytd", None, "no_data") EXCEPT !.warnings =
                      Append(@, Message("hhs_ytd", "hhs_ytd", y.metadata.reason))],
          value |-> None, metadata |-> y.metadata]
    ELSE [ctx |-> [add_value(y.ctx, "hhs_ytd", y.value, "calculated_ytd") EXCEPT !.cl =
                      Append(@, [variable |-> "hhs_ytd", type |-> "ytd_calculation",
                                 result |-> y.value, level |-> 3,
                                 expression |-> <<>>, variables |-> <<>>])],
          value |-> y.value, metadata |-> y.metadata]
YtdBlock(ctx) == YtdStored(calculate_ytd_value(ctx, "hhs"))

(***************************************************************************)
(* write_to_generated_reports: the fields prepared from the values         *)
(***************************************************************************)
\* round(x, 2): to the nearest hundredth, a tie to the even digit
Round2(v) ==
    IF v.e <= 2 THEN v
    ELSE LET unit == Pow10(v.e - 2)
             a == Abs(v.m)
             q == a \div unit
             rem == a % unit
             up == rem * 2 > unit \/ (rem * 2 = unit /\ q % 2 = 1)
             r == IF up THEN q + 1 ELSE q
         IN  FloatV(IF v.m < 0 THEN 0 - r ELSE r, 2)

\* str(value)
PyStr(value) == IF IsNum(value) THEN StrV(StrOfNum(value)) ELSE value

\* The loop over all_values up to key number n: the fields and the tracker
RECURSIVE MapFields(_, _, _)
MapFields(ctx, all_values, n) ==
    IF n = 0 THEN [fields |-> EmptyDict, conv |-> ctx.conv, log |-> ctx.log]
    ELSE
    LET before == MapFields(ctx, all_values, n - 1)
        var_name == VarOrder[n]
        value == all_values[var_name]
        var_config == report_variables[var_name]
        data_type == var_config.Data_Type
        numeric_value == parse_numeric_value(value)
        cnv == safe_percentage_conversion(value, var_name, "write_to_generated_reports",
                                          before.conv, before.log)
        field == IF data_type \in {"currency", "number"}
                 THEN (IF ~numeric_value.ok THEN None
                       ELSE IF data_type = "currency" THEN Round2(numeric_value.val)
                       ELSE numeric_value.val)
                 ELSE IF data_type = "percentage"
                 THEN (IF cnv.outcome = "raised" THEN value ELSE cnv.value)
                 ELSE IF data_type = "text" THEN PyStr(value)
                 ELSE value
    IN  IF value \in {Absent, None} \/ ~var_config.in_catalog \/ var_config.sf_domain
        THEN before
        ELSE [fields |-> [before.fields EXCEPT ![var_name] = field],
              conv |-> IF data_type = "percentage" THEN cnv.conv ELSE before.conv,
              log |-> IF data_type = "percentage" THEN cnv.log ELSE before.log]

write_to_generated_reports(ctx) == MapFields(ctx, get_all_values(ctx), Len(VarOrder))

(***************************************************************************)
(* The tracker, called by the stages in any order                          *)
(***************************************************************************)
\* The latest call on the tracker: its arguments, whether the name was marked
\* and the tracker empty when it was made, whether it passed on the value the
\* call before it returned for the same name on an empty tracker (again), and
\* what it returned.
NoCall == [op |-> "none", name |-> "", value_in |-> None,
           was_marked |-> FALSE, fresh |-> FALSE, again |-> FALSE,
           outcome |-> "none", value |-> None, was_converted |-> FALSE]

InitTracker ==
    /\ EmptyTracker
    /\ EmptyContext
    /\ NoEnvironment
    /\ NoRun
    /\ call = NoCall

\* One call of safe_percentage_conversion by some stage; the value is an
\* input value or the value the previous call returned (a value flowing on
\* to the next stage).
Converted(value, name, r) ==
    /\ converted_variables' = r.conv
    /\ conversion_log' = r.log
    /\ UNCHANGED <<envVars, ctxVars, runVars>>
    /\ call' = [op |-> "convert", name |-> name, value_in |-> value,
                was_marked |-> name \in converted_variables,
                fresh |-> converted_variables = {} /\ conversion_log = <<>>,
                again |-> /\ call.op = "convert" /\ call.fresh
                          /\ call.outcome = "returned"
                          /\ call.name = name /\ call.value = value,
                outcome |-> r.outcome, value |-> r.value,
                was_converted |-> r.was_converted]
Convert(value, name, stage) ==
    Converted(value, name,
              safe_percentage_conversion(value, name, stage,
                                         converted_variables, conversion_log))

reset_for_new_calculation ==
    /\ converted_variables' = {}
    /\ conversion_log' = <<>>
    /\ UNCHANGED <<envVars, ctxVars, runVars>>
    /\ call' = [NoCall EXCEPT !.op = "reset"]

NextTracker ==
    \/ \E value \in PctInputs \cup {call.value}, n \in Names, st \in Stages :
          Convert(value, n, st)
    \/ reset_for_new_calculation

SpecTracker == InitTracker /\ [][NextTracker]_vars

C3_IdempotentConversion ==
    call.again => /\ call.outcome = "returned"
                  /\ PyEq(call.value, call.value_in)
                  /\ call.was_converted = FALSE

\* C3 witness: the first call turned 150 into 1.5, a value that still looks
\* like percentage points, and the second call was made on it.
C3_Witness ==
    /\ call.again /\ call.was_marked
    /\ call.value_in = FloatV(15, 1) /\ call.value = FloatV(15, 1)


(***************************************************************************)
(* The evaluator, called on formulas over the record's values              *)
(***************************************************************************)
\* "{a}/{b}", "{a} x {b}", "= {a} + {b}", "{a};{b}", "", "{a}/({b}-{b})",
\* "{a}+", "{a}x{b}"
FormulaDiv == <<"{", "a", "}", "/", "{", "b", "}">>
FormulaDivDiff == <<"{", "a", "}", "/", "(", "{", "b", "}", "-", "{", "b", "}", ")">>
Formulas ==
    { FormulaDiv,
      <<"{", "a", "}", " ", "x", " ", "{", "b", "}">>,
      <<"=", " ", "{", "a", "}", " ", "+", " ", "{", "b", "}">>,
      <<"{", "a", "}", ";", "{", "b", "}">>,
      <<>>,
      FormulaDivDiff,
      <<"{", "a", "}", "+">>,
      <<"{", "a", "}", "x", "{", "b", "}">> }

\* Operand values of the record: 10, 0, 0.25, 0.000025, "1,000", "abc", or
\* no value.
OperandValues == { IntV(10), IntV(0), FloatV(25, 2), FloatV(25, 6),
                   StrV(<<"1", ",", "0", "0", "0">>), StrV(<<"a", "b", "c">>),
                   Absent }

NoEval == [op |-> "none", formula |-> <<>>, result |-> None, error |-> "",
           expression |-> <<>>, has_expr |-> FALSE, substituted |-> <<>>,
           sub_done |-> FALSE, evaluated |-> FALSE]

InitEval ==
    /\ EmptyTracker
    /\ EmptyContext
    /\ \E va \in OperandValues, vb \in OperandValues :
          raw_data = [EmptyDict EXCEPT !["a"] = va, !["b"] = vb]
    /\ date_end = NoDate
    /\ date_start = NoDate
    /\ \E dt \in {"number", "percentage"} :
          report_variables = [x \in AllVars |->
              IF x = "a" THEN VarConfig("report", dt, <<>>, "", "") ELSE PlainNumber]
    /\ global_vars = EmptyDict
    /\ client_variables = [ok |-> FALSE, fields |-> EmptyDict]
    /\ generated_reports = <<>>
    /\ NoRun
    /\ call = NoEval

\* One call of evaluate_formula on the values of the context, with the
\* declared types of the catalog.
Evaluated(formula, r) ==
    /\ call.op = "none"
    /\ converted_variables' = r.conv
    /\ conversion_log' = r.log
    /\ call' = [op |-> "evaluate", formula |-> formula, result |-> r.result,
                error |-> r.error, expression |-> r.expression,
                has_expr |-> r.has_expr, substituted |-> r.substituted,
                sub_done |-> r.sub_done, evaluated |-> r.evaluated]
    /\ UNCHANGED <<envVars, ctxVars, runVars>>
Evaluate(formula) ==
    Evaluated(formula,
              evaluate_formula(formula, get_all_values(Ctx),
                               [k \in AllVars |-> report_variables[k].Data_Type],
                               converted_variables, conversion_log))

NextEval == \E formula \in Formulas : Evaluate(formula)

SpecEval == InitEval /\ [][NextEval]_vars

SandboxAlphabet == {"0", "1", "2", "3", "4", "5", "6", "7", "8", "9",
                    ".", "+", "-", "*", "/", "(", ")", " "}

\* C8: when the expression obtained after placeholder substitution and
\* normalization holds a character outside digits . + - * / ( ) and blanks,
\* the evaluator returns no result, an error, and eval is never called.
C8_FormulaSandboxing ==
    (call.op = "evaluate" /\ call.sub_done
       /\ \E i \in 1..Len(call.substituted) : call.substituted[i] \notin SandboxAlphabet)
    => (call.result = None /\ call.error # "" /\ ~call.evaluated)

\* C8 witness: an operand value put the offending character there: 0.000025
\* is written as 2.5e-05 into a formula that holds only placeholders and '/'.
C8_Witness ==
    /\ call.op = "evaluate" /\ call.formula = FormulaDiv /\ call.sub_done
    /\ \E i \in 1..Len(call.substituted) : call.substituted[i] = "e"
    /\ call.error = "Invalid characters in formula" /\ ~call.evaluated

\* C9: a formula whose substituted expression divides by zero ("{a}/{b}" with
\* a = 10, b = 0, or a division by {b}-{b}) returns result 0 with a non-empty
\* error message.
C9_DivisionByZero ==
    (call.op = "evaluate"
       /\ raw_data["a"] \in {IntV(10), FloatV(25, 2)}
       /\ \/ (call.formula = FormulaDiv /\ raw_data["b"] = IntV(0))
          \/ (call.formula = FormulaDivDiff /\ raw_data["b"] \in {IntV(10), IntV(0), FloatV(25, 2)}))
    => (call.result = IntV(0) /\ call.error # "" /\ call.evaluated)

\* C9 witness: "{a}/{b}" was evaluated with a = 10 and b = 0.
C9_Witness ==
    /\ call.op = "evaluate" /\ call.formula = FormulaDiv
    /\ raw_data["a"] = IntV(10) /\ raw_data["b"] = IntV(0)
    /\ call.expression = <<"1", "0", "/", "0">>
    /\ call.error = "Division by zero in formula"

(***************************************************************************)
(* The resolver, called on the variable v of one context                   *)
(***************************************************************************)
MaxResolveCalls == 2

FallbackTypes == {"", "0", "previous_period", "global_default", "calculation"}

\* "{a} x 2"
FormulaDouble == <<"{", "a", "}", " ", "x", " ", "2">>

StoredReport(client, full, day, value) ==
    [client |-> client, client_record_id |-> "", is_full_month |-> full,
     date_end |-> day, month |-> MonthOf(day), year |-> YearOf(day),
     fields |-> [EmptyDict EXCEPT !["v"] = value]]

\* The stored reports: none; an older report with a value and a newer one
\* without; an older report with a value, one with a null and one that ends
\* inside the current period; only reports outside the window, of another
\* client or partial.
StoreOptions ==
    { <<>>,
      <<StoredReport(client_id, TRUE, 300, IntV(60)),
        StoredReport(client_id, TRUE, 370, Absent)>>,
      <<StoredReport(client_id, TRUE, 300, IntV(60)),
        StoredReport(client_id, TRUE, 330, None),
        StoredReport(client_id, TRUE, 370, IntV(64))>>,
      <<StoredReport(client_id, TRUE, 100, IntV(61)),
        StoredReport("client2", TRUE, 370, IntV(62)),
        StoredReport(client_id, FALSE, 370, IntV(63))>> }

NoPrev == [variable |-> "", ret |-> None, fl_count |-> 0, override |-> FALSE]
NoResolve == [op |-> "none", variable |-> "", ret |-> None, tried |-> <<>>,
              n |-> 0, override |-> FALSE, existing |-> None,
              marked |-> FALSE, cv_before |-> EmptyDict, fl_before |-> <<>>,
              prev |-> NoPrev]

InitResolve ==
    /\ EmptyTracker
    /\ EmptyContext
    /\ \E ra \in {Absent, IntV(25)}, rv \in {Absent, IntV(40)} :
          raw_data = [EmptyDict EXCEPT !["a"] = ra, !["v"] = rv]
    /\ date_end = 400
    /\ date_start \in {NoDate, 360}
    /\ \E src \in {"client_static", "report"},
          dt \in {"number", "percentage", "text"},
          f1 \in FallbackTypes, f2 \in FallbackTypes :
          report_variables = [x \in AllVars |->
              IF x = "v" THEN VarConfig(src, dt, FormulaDouble, f1, f2)
              ELSE PlainNumber]
    /\ \E g \in {Absent, IntV(50)} : global_vars = [EmptyDict EXCEPT !["v"] = g]
    /\ \E ok \in BOOLEAN, ov \in {Absent, IntV(25), StrV(<<"2", "5", "%">>)} :
          /\ (~ok => ov = Absent)
          /\ client_variables = [ok |-> ok, fields |-> [EmptyDict EXCEPT !["v"] = ov]]
    /\ generated_reports \in StoreOptions
    /\ NoRun
    /\ call = NoResolve

CountFor(log, variable) == Cardinality({i \in DOMAIN log : log[i].variable = variable})

\* One call of resolve_value on the context.
Resolved(variable, r) ==
    /\ call.n < MaxResolveCalls
    /\ SetCtx(r.ctx)
    /\ call' = [op |-> "resolve", variable |-> variable, ret |-> r.ret,
                tried |-> r.tried, n |-> call.n + 1,
                override |-> HasOverride(variable, report_variables[variable]),
                existing |-> get_value(Ctx, variable),
                marked |-> variable \in converted_variables,
                cv_before |-> calculated_values,
                fl_before |-> fallback_log,
                prev |-> [variable |-> call.variable, ret |-> call.ret,
                          fl_count |-> CountFor(call.fl_before, variable),
                          override |-> call.override]]
    /\ UNCHANGED <<envVars, runVars>>
Resolve(variable) ==
    Resolved(variable, resolve_value(Ctx, variable, report_variables[variable]))

NextResolve == Resolve("v")

SpecResolve == InitResolve /\ [][NextResolve]_vars

\* C5: resolving a variable twice within one context returns the same value
\* both times, the second call does not change the resolved-values mapping,
\* and the fallback log gains at most one entry for the variable over the
\* two calls.
C5_ResolutionIdempotence ==
    (call.op = "resolve" /\ call.prev.variable = call.variable)
    => /\ PyEq(call.ret, call.prev.ret)
       /\ calculated_values = call.cv_before
       /\ CountFor(fallback_log, call.variable) - call.prev.fl_count <= 1

\* The override as resolve_value is to return it: a number parsed to float,
\* a text cast to a string, a percentage converted by the tracker unless the
\* name is already marked.
CoercedOverride(dt, ov, marked) ==
    IF dt = "number" THEN (IF ov = IntV(25) THEN FloatV(25, 0) ELSE ov)
    ELSE IF dt = "text" THEN (IF ov = IntV(25) THEN StrV(<<"2", "5">>) ELSE ov)
    ELSE IF ~marked THEN FloatV(25, 2)
    ELSE IF ov = IntV(25) THEN FloatV(25, 0) ELSE ov

LastEntry(log) == log[Len(log)]

\* C6: when the source type is client_static and the override store holds a
\* value, resolve returns the override's coerced value and stores it with
\* source "client_static", whatever the input record holds for the variable
\* and whatever its fallback slots are.
C6_StaticOverridePrecedence ==
    (call.op = "resolve" /\ report_variables[call.variable].Source_Type = "client_static"
       /\ client_variables.ok /\ client_variables.fields[call.variable] # Absent)
    => LET expected == CoercedOverride(report_variables[call.variable].Data_Type,
                                       client_variables.fields[call.variable],
                                       call.marked)
       IN  /\ call.ret = expected
           /\ calculated_values[call.variable] = expected
           /\ Len(fallback_log) = Len(call.fl_before) + 1
           /\ LastEntry(fallback_log) = [variable |-> call.variable,
                                         value |-> expected,
                                         source |-> "client_static"]

\* C6 witness: the record holds the conflicting raw value 40, both fallback
\* slots are set, and the override 25 of a percentage variable was returned
\* as 0.25.
C6_Witness ==
    /\ call.op = "resolve" /\ call.n = 1 /\ call.override
    /\ raw_data["v"] = IntV(40)
    /\ report_variables["v"].fallback_1 = "0"
    /\ report_variables["v"].fallback_2 = "global_default"
    /\ report_variables["v"].Data_Type = "percentage"
    /\ call.ret = FloatV(25, 2)

\* Whether a fallback slot yields a value in this environment, and the source
\* label it records.
SlotYields(ft) ==
    \/ ft = "0"
    \/ ft = "global_default" /\ global_vars["v"] # Absent
    \/ /\ ft = "previous_period"
       /\ \E i \in DOMAIN generated_reports :
             /\ generated_reports[i].client = client_id
             /\ generated_reports[i].is_full_month
             /\ generated_reports[i].date_end < ComparisonDate(date_start, date_end)
             /\ generated_reports[i].date_end > date_end - 180
             /\ generated_reports[i].fields["v"] \notin {Absent, None}
    \/ ft = "calculation" /\ raw_data["a"] # Absent
SlotLabel(ft) ==
    IF ft = "0" THEN "zero_fallback"
    ELSE IF ft = "global_default" THEN "global_default"
    ELSE IF ft = "previous_period" THEN "previous_period(6mo)"
    ELSE "calculated_fallback"

\* C7: for a variable with no existing value and no static override, slot 1
\* is tried before slot 2, slot 2 is consulted only when slot 1 yields no
\* value, and the value is recorded with the source label of the first slot
\* that yielded it.
C7_FallbackChainOrder ==
    (call.op = "resolve" /\ ~call.override /\ call.existing = None)
    => LET f1 == report_variables[call.variable].fallback_1
           f2 == report_variables[call.variable].fallback_2
           y1 == f1 # "" /\ SlotYields(f1)
           y2 == f2 # "" /\ SlotYields(f2)
       IN  /\ y1 => /\ call.tried = <<1>>
                    /\ call.ret # None
                    /\ Len(fallback_log) = Len(call.fl_before) + 1
                    /\ LastEntry(fallback_log).source = SlotLabel(f1)
           /\ (~y1 /\ y2) => /\ call.tried = (IF f1 # "" THEN <<1, 2>> ELSE <<2>>)
                             /\ call.ret # None
                             /\ Len(fallback_log) = Len(call.fl_before) + 1
                             /\ LastEntry(fallback_log).source = SlotLabel(f2)
           /\ (~y1 /\ ~y2) => /\ call.ret = None
                              /\ fallback_log = call.fl_before
                              /\ calculated_values = call.cv_before

\* C7 witness: slot 1 (previous_period) found no usable report, slot 2
\* (global_default) yielded 50.
C7_Witness ==
    /\ call.op = "resolve" /\ ~call.override /\ call.existing = None
    /\ report_variables["v"].fallback_1 = "previous_period"
    /\ report_variables["v"].fallback_2 = "global_default"
    /\ call.tried = <<1, 2>>
    /\ call.ret = IntV(50)
    /\ LastEntry(fallback_log).source = "global_default"

(***************************************************************************)
(* One run of main: calculate_all_variables, then the write                *)
(***************************************************************************)
\* len(context.calculated_values) > 10 lets a failed run be written
PartialWriteThreshold == 10

FormulaA == <<"{", "h", "h", "s", "}", " ", "*", " ", "{", "p", "}">>
FormulaB == <<"{", "a", "}", " ", "+", " ", "1">>
FormulaV == <<"{", "b", "}", " ", "/", " ", "{", "h", "h", "s", "}">>
FormulaP1 == <<"{", "p", "}", " ", "+", " ", "1">>

\* Dates of the fifth year of the calendar: mid January and mid March
DateJan == 5 * 360 + 15
DateMar == 5 * 360 + 75
DatePrevJan == 5 * 360 + 30
DatePrevFeb == 5 * 360 + 60

PctText == StrV(<<"2", "5", "%">>)

YtdReport(day, value) ==
    [client |-> client_record_id, client_record_id |-> client_record_id,
     is_full_month |-> TRUE, date_end |-> day, month |-> MonthOf(day),
     year |-> YearOf(day), fields |-> [EmptyDict EXCEPT !["hhs"] = value]]

\* calculation_order of a catalog five levels deep, and of one whose
\* deepest formula is at level 2
OrderFull == [l \in 0..5 |->
                CASE l = 0 -> <<"p", "hhs">>
                  [] l = 1 -> <<"a">>
                  [] l = 2 -> <<"b">>
                  [] l = 3 -> <<"v">>
                  [] l = 4 -> <<"hhs_ytd", "z">>
                  [] OTHER -> <<>>]
\* An order of three levels only, with z among the inputs of level 0
OrderShallow ==
    [l \in 0..5 |-> IF l = 0 THEN <<"p", "hhs", "z">>
                    ELSE IF l <= 2 THEN OrderFull[l] ELSE <<>>]

NoRunCall == [op |-> "none", success |-> FALSE]

\* Validation_Rules ">= 0 AND <= 1" and Expected_Values "> 0 AND < 5"
RuleUnitInterval ==
    [kind |-> "expr", integer |-> FALSE,
     conds |-> <<[cmp |-> ">=", thr |-> FloatV(0, 0)], [cmp |-> "<=", thr |-> FloatV(1, 0)]>>,
     ops |-> <<"and">>]
RuleBelowFive ==
    [kind |-> "expr", integer |-> FALSE,
     conds |-> <<[cmp |-> ">", thr |-> FloatV(0, 0)], [cmp |-> "<", thr |-> FloatV(5, 0)]>>,
     ops |-> <<"and">>]
Ruled(var_config) ==
    [var_config EXCEPT !.Validation_Rules = RuleUnitInterval, !.Expected_Values = RuleBelowFive]

\* The tracker of a context on which "25%" was converted for p before the run
ConvertedBefore == safe_percentage_conversion(PctText, "p", "resolve_value", {}, <<>>)
UsedTracker ==
    /\ converted_variables = ConvertedBefore.conv
    /\ conversion_log = ConvertedBefore.log
    /\ call = [op |-> "safe_percentage_conversion", success |-> TRUE]

\* main has loaded the catalog, the client's overrides and the report record
\* and built a context; the context's tracker is new, or was used before
InitRun ==
    /\ EmptyContext
    /\ report_fields = EmptyDict
    /\ pc = "idle"
    /\ level = 0
    /\ idx = 0
    /\ trace = <<>>
    /\ date_end \in {DateJan, DateMar}
    /\ date_start = NoDate
    /\ calculation_order \in {OrderFull, OrderShallow}
    /\ dependency_graph = <<>>
    /\ NoServer
    /\ \E stored \in {<<>>,
                       <<YtdReport(DatePrevJan, IntV(5)), YtdReport(DatePrevFeb, IntV(6))>>,
                       <<YtdReport(DatePrevJan, IntV(5)),
                         [YtdReport(DatePrevFeb, IntV(7)) EXCEPT !.is_full_month = FALSE],
                         YtdReport(DateMar, IntV(6))>>} :
          /\ generated_reports = stored
          /\ store_ok \in (IF stored = <<>> THEN {TRUE} ELSE BOOLEAN)
          /\ \/ EmptyTracker /\ call = NoRunCall
             \/ stored = <<>> /\ UsedTracker
    /\ \E rp \in {Absent, PctText, IntV(25)}, rh \in {Absent, IntV(0), IntV(8)},
          ra \in {Absent, IntV(7)} :
          raw_data = [EmptyDict EXCEPT !["p"] = rp, !["hhs"] = rh, !["a"] = ra]
    /\ \E psrc \in {"report", "client_static"}, ov \in {Absent, PctText} :
          /\ psrc = "report" => ov = Absent
          /\ client_variables = [ok |-> TRUE, fields |-> [EmptyDict EXCEPT !["p"] = ov]]
          /\ \E adt \in {"number", "percentage"}, vf1 \in {"", "global_default"},
                zc \in {NotInCatalog, PlainNumber,
                       VarConfig("calculated", "number", FormulaB, "", ""),
                       VarConfig("calculated", "number", FormulaP1, "", "")},
                ruled \in BOOLEAN :
                report_variables =
                  [x \in AllVars |->
                     CASE x = "p" -> VarConfig(psrc, "percentage", <<>>, "", "")
                       [] x = "hhs" -> PlainNumber
                       [] x = "a" -> IF ruled THEN Ruled(VarConfig("calculated", adt, FormulaA, "", ""))
                                     ELSE VarConfig("calculated", adt, FormulaA, "", "")
                       [] x = "b" -> VarConfig("calculated", "number", FormulaB, "", "")
                       [] x = "v" -> VarConfig("calculated", "number", FormulaV, vf1, "")
                       [] x = "hhs_ytd" -> VarConfig("client_historical", "number", <<>>, "", "")
                       [] OTHER -> zc]
    /\ global_vars = [EmptyDict EXCEPT !["v"] = IntV(50)]

Step(kind, lvl, variable, value, operands, lookups) ==
    [kind |-> kind, level |-> lvl, variable |-> variable, value |-> value,
     operands |-> operands, lookups |-> lookups]

\* The level after this one, or the validation after level 5
Advance(lvl) ==
    /\ pc' = IF lvl = 5 THEN "validate" ELSE "levels"
    /\ level' = IF lvl = 5 THEN lvl ELSE lvl + 1
    /\ idx' = 1

\* calculate_all_variables beginning on the tracker as it finds it
StartRunNoReset ==
    /\ pc = "idle"
    /\ pc' = "level0"
    /\ level' = 0
    /\ idx' = 1
    /\ UNCHANGED <<envVars, ctxVars, converted_variables, conversion_log, ytd_metadata,
                   validation_flags, expected_flags, report_fields, trace, call>>
\* calculate_all_variables begins: the tracker is reset
StartRun ==
    /\ pc = "idle"
    /\ converted_variables' = {}
    /\ conversion_log' = <<>>
    /\ pc' = "level0"
    /\ level' = 0
    /\ idx' = 1
    /\ UNCHANGED <<envVars, ctxVars, ytd_metadata, validation_flags,
                   expected_flags, report_fields, trace, call>>

\* The next variable of level 0 is resolved
Level0Resolved(var, r) ==
    /\ SetCtx(r.ctx)
    /\ trace' = Append(trace, Step("resolved", 0, var, r.ret, <<>>, <<>>))
ResolveLevel0 ==
    /\ pc = "level0"
    /\ idx <= Len(calculation_order[0])
    /\ Level0Resolved(calculation_order[0][idx],
                      ResolveLevel0Var(Ctx, calculation_order[0][idx]))
    /\ idx' = idx + 1
    /\ UNCHANGED <<envVars, ytd_metadata, validation_flags, expected_flags,
                   report_fields, pc, level, call>>

\* Level 0 is done: on to level 1
EndLevel0 ==
    /\ pc = "level0"
    /\ idx > Len(calculation_order[0])
    /\ Advance(0)
    /\ UNCHANGED <<envVars, ctxVars, converted_variables, conversion_log,
                   ytd_metadata, validation_flags, expected_flags,
                   report_fields, trace, call>>

\* A level without variables: continue with the next level
SkipEmptyLevel ==
    /\ pc = "levels"
    /\ calculation_order[level] = <<>>
    /\ Advance(level)
    /\ UNCHANGED <<envVars, ctxVars, converted_variables, conversion_log,
                   ytd_metadata, validation_flags, expected_flags,
                   report_fields, trace, call>>

\* The next variable of the level is calculated
VarCalculated(var, r) ==
    /\ SetCtx(r.ctx)
    /\ trace' = Append(trace, Step(r.kind, level, var, r.value, r.operands, r.lookups))
CalcVariable ==
    /\ pc = "levels"
    /\ idx <= Len(calculation_order[level])
    /\ VarCalculated(calculation_order[level][idx],
                     CalculateVar(Ctx, calculation_order[level][idx], level))
    /\ idx' = idx + 1
    /\ UNCHANGED <<envVars, ytd_metadata, validation_flags, expected_flags,
                   report_fields, pc, level, call>>

\* The variables of the level are done: the year-to-date block after level
\* 3, the next level otherwise
EndLevel ==
    /\ pc = "levels"
    /\ calculation_order[level] # <<>>
    /\ idx > Len(calculation_order[level])
    /\ IF level = 3
       THEN pc' = "ytd" /\ UNCHANGED <<level, idx>>
       ELSE Advance(level)
    /\ UNCHANGED <<envVars, ctxVars, converted_variables, conversion_log,
                   ytd_metadata, validation_flags, expected_flags,
                   report_fields, trace, call>>

\* The year-to-date block
YtdDone(r) ==
    /\ SetCtx(r.ctx)
    /\ ytd_metadata' = r.metadata
    /\ trace' = Append(trace, Step("ytd", level, "hhs_ytd", r.value, <<>>, <<>>))
CalculateYTD ==
    /\ pc = "ytd"
    /\ YtdDone(YtdBlock(Ctx))
    /\ Advance(level)
    /\ UNCHANGED <<envVars, validation_flags, expected_flags, report_fields, call>>

\* The run failing on a warning as well
ValidatedWarningsFail(r) ==
    /\ SetCtx(r.ctx)
    /\ validation_flags' = r.validation_flags
    /\ expected_flags' = r.expected_flags
    /\ call' = [op |-> "calculate_all_variables",
                success |-> Len(r.ctx.errors) = 0 /\ Len(r.ctx.warnings) = 0]
\* validate_all_calculated_values, and the run's return value
Validated(r) ==
    /\ SetCtx(r.ctx)
    /\ validation_flags' = r.validation_flags
    /\ expected_flags' = r.expected_flags
    /\ call' = [op |-> "calculate_all_variables", success |-> Len(r.ctx.errors) = 0]
Validate ==
    /\ pc = "validate"
    /\ Validated(validate_all_calculated_values(Ctx))
    /\ pc' = "write"
    /\ UNCHANGED <<envVars, ytd_metadata, report_fields, level, idx, trace>>

ValuesCalculated == Cardinality({x \in AllVars : calculated_values[x] # Absent})

\* main writes the report of a successful run, or of one with enough values
Written(r) ==
    /\ report_fields' = r.fields
    /\ converted_variables' = r.conv
    /\ conversion_log' = r.log
WriteReport ==
    /\ pc = "write"
    /\ call.success \/ ValuesCalculated > PartialWriteThreshold
    /\ Written(write_to_generated_reports(Ctx))
    /\ pc' = "done"
    /\ call' = [call EXCEPT !.op = "write_to_generated_reports"]
    /\ UNCHANGED <<envVars, ctxVars, ytd_metadata, validation_flags,
                   expected_flags, level, idx, trace>>

\* main skips the write of a failed run
SkipWrite ==
    /\ pc = "write"
    /\ ~(call.success \/ ValuesCalculated > PartialWriteThreshold)
    /\ pc' = "done"
    /\ call' = [call EXCEPT !.op = "main"]
    /\ UNCHANGED <<envVars, ctxVars, converted_variables, conversion_log,
                   ytd_metadata, validation_flags, expected_flags,
                   report_fields, level, idx, trace>>

NextRun ==
    \/ StartRun
    \/ ResolveLevel0
    \/ EndLevel0
    \/ SkipEmptyLevel
    \/ CalcVariable
    \/ EndLevel
    \/ CalculateYTD
    \/ Validate
    \/ WriteReport
    \/ SkipWrite

SpecRun == InitRun /\ [][NextRun]_vars

(***************************************************************************)
(* dependency_analyzer.py: the leveler that writes the calculation order   *)
(* the engine reads from dependency_analysis.json.                         *)
(***************************************************************************)

\* The deepest level a catalog of Len(VarOrder) variables can be given.
MaxDepth == Len(VarOrder) - 1

\* `current in deps`, deps being the list parse_dependencies built
InDeps(current, deps) == \E i \in DOMAIN deps : deps[i] = current

\* The level given to a variable whose last dependency left the queue.
LevelAfterSame(current_level) == current_level
LevelAfter(current_level) == current_level + 1

\* in_degree, the queue of the variables without dependencies, and level 0
LevelerStart(graph) ==
    LET in_degree == [x \in DOMAIN graph |-> Len(graph[x])]
        roots == SelectSeq(VarOrder, LAMBDA x : x \in DOMAIN graph /\ in_degree[x] = 0)
    IN [in_degree |-> in_degree,
        queue |-> roots,
        levels |-> [l \in 0..MaxDepth |-> IF l = 0 THEN roots ELSE <<>>],
        variable_levels |-> [x \in {roots[i] : i \in DOMAIN roots} |-> 0]]

\* The body of `for var, deps in dependency_graph.items()` for one var.
RelaxOne(k, current, current_level, var, deps) ==
    IF ~InDeps(current, deps) THEN k
    ELSE IF k.in_degree[var] - 1 # 0
    THEN [k EXCEPT !.in_degree[var] = @ - 1]
    ELSE [in_degree |-> [k.in_degree EXCEPT ![var] = 0],
          queue |-> Append(k.queue, var),
          levels |-> [k.levels EXCEPT ![LevelAfter(current_level)] = Append(@, var)],
          variable_levels |-> (var :> LevelAfter(current_level)) @@ k.variable_levels]

\* The for loop over the graph's items, which come in catalog order.
RECURSIVE Relax(_, _, _, _, _)
Relax(k, current, current_level, n, graph) ==
    IF n > Len(VarOrder) THEN k
    ELSE IF VarOrder[n] \notin DOMAIN graph
    THEN Relax(k, current, current_level, n + 1, graph)
    ELSE Relax(RelaxOne(k, current, current_level, VarOrder[n], graph[VarOrder[n]]),
               current, current_level, n + 1, graph)

\* `while queue:` with queue.popleft()
RECURSIVE Drain(_, _)
Drain(k, graph) ==
    IF k.queue = <<>> THEN k
    ELSE Drain(Relax([k EXCEPT !.queue = Tail(@)], Head(k.queue),
                     k.variable_levels[Head(k.queue)], 1, graph),
               graph)

calculate_dependency_levels(graph) == Drain(LevelerStart(graph), graph)

\* 'calculation_order' of the results main saves: one entry per level
\* the leveler filled; a level it did not fill reads as the empty list.
SavedOrder(k) == k.levels

\* The dependency lists a catalog record can carry for each variable: the
\* catalog's own, a longer chain, a name twice, a name the catalog does
\* not hold, and a variable that lists itself.
DependencyOptions ==
    [p |-> {<<>>},
     hhs |-> {<<>>, <<"p">>},
     a |-> {<<"hhs", "p">>, <<"hhs">>},
     b |-> {<<"a">>, <<"a", "a">>},
     v |-> {<<"b", "hhs">>, <<"b">>, <<"v">>},
     hhs_ytd |-> {<<"hhs">>, <<"v">>, <<"ghost">>},
     z |-> {<<>>, <<"a">>, <<"b">>, <<"hhs_ytd">>}]

\* A rule "<= t1 OR >= t2 AND >= t3"
OrThenAnd(t1, t2, t3) ==
    [kind |-> "expr", integer |-> FALSE,
     conds |-> <<[cmp |-> "<=", thr |-> FloatV(t1, 0)],
                 [cmp |-> ">=", thr |-> FloatV(t2, 0)],
                 [cmp |-> ">=", thr |-> FloatV(t3, 0)]>>,
     ops |-> <<"or", "and">>]
\* A rule ">= t1 AND >= t2 OR <= t3"
AndThenOr(t1, t2, t3) ==
    [kind |-> "expr", integer |-> FALSE,
     conds |-> <<[cmp |-> ">=", thr |-> FloatV(t1, 0)],
                 [cmp |-> ">=", thr |-> FloatV(t2, 0)],
                 [cmp |-> "<=", thr |-> FloatV(t3, 0)]>>,
     ops |-> <<"and", "or">>]
WithRules(var_config, hard, soft) ==
    [var_config EXCEPT !.Validation_Rules = hard, !.Expected_Values = soft]

\* The analyzer has not run yet; the engine will run on what it saves.
InitLevels ==
    /\ EmptyTracker
    /\ EmptyContext
    /\ report_fields = EmptyDict
    /\ pc = "analyze"
    /\ level = 0
    /\ idx = 0
    /\ trace = <<>>
    /\ date_end = DateMar
    /\ date_start = NoDate
    /\ calculation_order = [l \in 0..MaxDepth |-> <<>>]
    /\ dependency_graph \in [AllVars -> UNION {DependencyOptions[x] : x \in AllVars}]
    /\ \A x \in AllVars : dependency_graph[x] \in DependencyOptions[x]
    /\ generated_reports = <<>>
    /\ store_ok = TRUE
    /\ NoServer
    /\ call = NoRunCall
    /\ \E rp \in {Absent, IntV(25)} :
          raw_data = [EmptyDict EXCEPT !["p"] = rp, !["hhs"] = IntV(8)]
    /\ client_variables = [ok |-> TRUE, fields |-> EmptyDict]
    /\ \E ruled \in BOOLEAN :
          report_variables =
          [x \in AllVars |->
             CASE x = "p" -> VarConfig("report", "percentage", <<>>, "", "")
               [] x = "hhs" ->
                    IF ruled THEN WithRules(PlainNumber, AndThenOr(5, 100, 1), AndThenOr(5, 100, 9))
                    ELSE PlainNumber
               [] x = "a" ->
                    IF ruled
                    THEN WithRules(VarConfig("calculated", "number", FormulaA, "", ""),
                                   OrThenAnd(5, 100, 50), OrThenAnd(5, 100, 1))
                    ELSE VarConfig("calculated", "number", FormulaA, "", "")
               [] x = "b" ->
                    IF ruled
                    THEN WithRules(VarConfig("calculated", "number", FormulaB, "", ""),
                                   OrThenAnd(5, 100, 1), OrThenAnd(5, 100, 50))
                    ELSE VarConfig("calculated", "number", FormulaB, "", "")
               [] x = "v" -> VarConfig("calculated", "number", FormulaV, "", "")
               [] x = "hhs_ytd" -> VarConfig("client_historical", "number", <<>>, "", "")
               [] OTHER -> VarConfig("calculated", "number", FormulaP1, "", "")]
    /\ global_vars = EmptyDict

\* dependency_analyzer.main: level the graph and save the order
AnalyzeDependencies ==
    /\ pc = "analyze"
    /\ calculation_order' = SavedOrder(calculate_dependency_levels(dependency_graph))
    /\ pc' = "idle"
    /\ UNCHANGED <<raw_data, date_end, date_start, report_variables,
                   global_vars, client_variables, generated_reports, store_ok,
                   dependency_graph, request_cache, clock, requests, ctxVars, converted_variables,
                   conversion_log, ytd_metadata, validation_flags,
                   expected_flags, report_fields, level, idx, trace, call>>

NextLevels ==
    \/ AnalyzeDependencies
    \/ NextRun

SpecLevels == InitLevels /\ [][NextLevels]_vars

(***************************************************************************)
(* webhook_server.py: is_duplicate_request and the handler of              *)
(* /webhook/calculation-and-report.  Flask's development server serves     *)
(* each request on a thread of its own, so the handlers interleave at      *)
(* every statement of is_duplicate_request.                                *)
(***************************************************************************)
CACHE_TTL == 300
MaxRequests == 3
MaxClock == 2 * CACHE_TTL + 2
ReportIds == {"rec1", "rec2"}

\* f"{endpoint}:{report_id}"
CacheKey(endpoint, report_id) == <<endpoint, report_id>>
\* `cache_key in request_cache`
InCache(cache, cache_key) == \E n \in DOMAIN cache : cache[n].key = cache_key
\* the keys whose entry is older than the TTL at current_time, in dict order
ExpiredKeys(cache, current_time) ==
    LET old == SelectSeq(cache, LAMBDA en : current_time - en.timestamp > CACHE_TTL)
    IN  [n \in DOMAIN old |-> old[n].key]
\* `del request_cache[key]`
Deleted(cache, cache_key) == SelectSeq(cache, LAMBDA en : en.key # cache_key)
\* `request_cache[cache_key] = current_time`: a new key goes last, an
\* existing key keeps its place
Stored(cache, cache_key, current_time) ==
    IF InCache(cache, cache_key)
    THEN [n \in DOMAIN cache |->
            IF cache[n].key = cache_key
            THEN [key |-> cache_key, timestamp |-> current_time] ELSE cache[n]]
    ELSE Append(cache, [key |-> cache_key, timestamp |-> current_time])

\* The handlers that are inside is_duplicate_request
Checking == {"scan", "purge", "test", "mark"}
Request(pc_, report_id, current_time, expired_keys, overlapped) ==
    [pc |-> pc_, report_id |-> report_id, current_time |-> current_time,
     expired_keys |-> expired_keys, overlapped |-> overlapped]
NotArrived == Request("waiting", "", 0, <<>>, FALSE)

InitWebhook ==
    /\ EmptyTracker
    /\ EmptyContext
    /\ NoEnvironment
    /\ report_fields = EmptyDict
    /\ pc = "idle"
    /\ level = 0
    /\ idx = 0
    /\ trace = <<>>
    /\ calculation_order = [l \in 0..5 |-> <<>>]
    /\ dependency_graph = <<>>
    /\ store_ok = TRUE
    /\ call = NoCall
    /\ request_cache = <<>>
    /\ clock = 0
    /\ requests = [r \in 1..MaxRequests |-> NotArrived]

engineVars == <<converted_variables, conversion_log, raw_data, date_end, date_start, report_variables, global_vars, client_variables, generated_reports, store_ok, calculation_order, dependency_graph, ctxVars, runVars, call>>

\* The handler up to the call of is_duplicate_request: a request without a
\* report_id is answered 400; time.time() is read on entry.
Arrive(r) ==
    /\ requests[r].pc = "waiting"
    /\ \E report_id \in ReportIds \cup {""} :
          requests' =
            IF report_id = ""
            THEN [requests EXCEPT ![r] = Request("rejected", "", 0, <<>>, FALSE)]
            ELSE [q \in DOMAIN requests |->
                    IF q = r
                    THEN Request("scan", report_id, clock, <<>>,
                                 \E o \in DOMAIN requests : requests[o].pc \in Checking)
                    ELSE IF requests[q].pc \in Checking
                    THEN [requests[q] EXCEPT !.overlapped = TRUE]
                    ELSE requests[q]]
    /\ UNCHANGED <<request_cache, clock, engineVars>>

\* expired_keys = [key for key, timestamp in request_cache.items() if ...]
Scan(r) ==
    /\ requests[r].pc = "scan"
    /\ requests' = [requests EXCEPT ![r].pc = "purge",
                                    ![r].expired_keys =
                                        ExpiredKeys(request_cache, requests[r].current_time)]
    /\ UNCHANGED <<request_cache, clock, engineVars>>

\* The dict changes size under the comprehension when another handler
\* deletes or stores meanwhile: RuntimeError, answered 500.
ScanInterrupted(r) ==
    /\ requests[r].pc = "scan"
    /\ request_cache # <<>>
    /\ \E o \in DOMAIN requests :
          /\ o # r
          /\ \/ requests[o].pc = "purge" /\ requests[o].expired_keys # <<>>
             \/ /\ requests[o].pc = "mark"
                /\ ~InCache(request_cache,
                            CacheKey("calculation-and-report", requests[o].report_id))
    /\ requests' = [requests EXCEPT ![r].pc = "failed"]
    /\ UNCHANGED <<request_cache, clock, engineVars>>

\* One turn of `for key in expired_keys: del request_cache[key]`; a key
\* another handler deleted already raises KeyError, answered 500.
Purge(r) ==
    /\ requests[r].pc = "purge"
    /\ IF requests[r].expired_keys = <<>>
       THEN /\ requests' = [requests EXCEPT ![r].pc = "test"]
            /\ UNCHANGED request_cache
       ELSE IF InCache(request_cache, Head(requests[r].expired_keys))
       THEN /\ request_cache' = Deleted(request_cache, Head(requests[r].expired_keys))
            /\ requests' = [requests EXCEPT ![r].expired_keys = Tail(@)]
       ELSE /\ requests' = [requests EXCEPT ![r].pc = "failed"]
            /\ UNCHANGED request_cache
    /\ UNCHANGED <<clock, engineVars>>

\* `if cache_key in request_cache: return True`, answered as a duplicate
Test(r) ==
    /\ requests[r].pc = "test"
    /\ requests' = [requests EXCEPT ![r].pc =
          IF InCache(request_cache,
                     CacheKey("calculation-and-report", requests[r].report_id))
          THEN "duplicate" ELSE "mark"]
    /\ UNCHANGED <<request_cache, clock, engineVars>>

\* `request_cache[cache_key] = current_time; return False`
Mark(r) ==
    /\ requests[r].pc = "mark"
    /\ request_cache' = Stored(request_cache,
                               CacheKey("calculation-and-report", requests[r].report_id),
                               requests[r].current_time)
    /\ requests' = [requests EXCEPT ![r].pc = "process"]
    /\ UNCHANGED <<clock, engineVars>>

\* processor.process_report(report_id) and the answer
Process(r) ==
    /\ requests[r].pc = "process"
    /\ requests' = [requests EXCEPT ![r].pc = "done"]
    /\ UNCHANGED <<request_cache, clock, engineVars>>

\* Time passes: a whole TTL, or a second more than that.
Tick ==
    /\ \E d \in {CACHE_TTL, CACHE_TTL + 1} :
          /\ clock + d <= MaxClock
          /\ clock' = clock + d
    /\ UNCHANGED <<request_cache, requests, engineVars>>

NextWebhook ==
    \/ \E r \in DOMAIN requests : Arrive(r)
    \/ \E r \in DOMAIN requests : Scan(r)
    \/ \E r \in DOMAIN requests : ScanInterrupted(r)
    \/ \E r \in DOMAIN requests : Purge(r)
    \/ \E r \in DOMAIN requests : Test(r)
    \/ \E r \in DOMAIN requests : Mark(r)
    \/ \E r \in DOMAIN requests : Process(r)
    \/ Tick

SpecWebhook == InitWebhook /\ [][NextWebhook]_vars

\* The value of p that enters the run: the client's override where p is
\* client_static and overridden, the report's field otherwise
EnteringP ==
    IF HasOverride("p", report_variables["p"]) THEN client_variables.fields["p"]
    ELSE raw_data["p"]

\* The values the evaluator has substituted for a name
OperandsOf(name) ==
    UNION {{trace[i].operands[k].value :
              k \in {n \in DOMAIN trace[i].operands : trace[i].operands[n].name = name}} :
           i \in DOMAIN trace}

\* Every value p has taken at a stage: returned by the resolver, held by the
\* context, substituted by the evaluator, prepared by the output mapper
StageValuesOfP ==
    {trace[i].value : i \in {j \in DOMAIN trace : trace[j].variable = "p"}}
    \cup OperandsOf("p")
    \cup {calculated_values["p"], report_fields["p"]}

\* C2: when the percentage variable p enters the run as "25%", its
\* conversion yields 0.25 and every numeric value it takes at a stage of the
\* run (resolver, evaluator, output mapper) is 0.25, so never 0.0025 or 2.5;
\* the evaluator always computes with 0.25.
C2_PercentageRoundTrip ==
    EnteringP = PctText =>
        /\ \A x \in StageValuesOfP : IsNum(x) => PyEq(x, FloatV(25, 2))
        /\ \A x \in StageValuesOfP :
              ~PyEq(x, FloatV(25, 4)) /\ ~PyEq(x, FloatV(25, 1))
        /\ \A x \in OperandsOf("p") : PyEq(x, FloatV(25, 2))
        /\ \A i \in DOMAIN conversion_log :
              conversion_log[i].variable = "p"
                 => /\ conversion_log[i].original = PctText
                    /\ PyEq(conversion_log[i].converted, FloatV(25, 2))

\* "25%" has passed the resolver, the evaluator and the output mapper
C2_Witness ==
    /\ pc = "done"
    /\ EnteringP = PctText
    /\ \E i \in DOMAIN trace : trace[i].kind = "resolved" /\ trace[i].variable = "p"
    /\ OperandsOf("p") # {}
    /\ report_fields["p"] # Absent
    /\ \E i \in DOMAIN conversion_log : conversion_log[i].variable = "p"

\* C4: a formula that references a variable calculated at a lower level of
\* this run is evaluated with the value calculated for it, whatever the raw
\* record holds under the same name.
C4_LevelOrderDependency ==
    \A i, j \in DOMAIN trace :
        (i < j /\ trace[i].kind = "calculated" /\ trace[i].level < trace[j].level)
        => \A k \in DOMAIN trace[j].lookups :
              trace[j].lookups[k].name = trace[i].variable
                 => trace[j].lookups[k].value = trace[i].value

\* A level-2 formula has been evaluated on a level-1 result while the raw
\* record holds another value under that name
C4_Witness ==
    \E i, j \in DOMAIN trace :
        /\ i < j
        /\ trace[i].kind = "calculated" /\ trace[i].level = 1
        /\ trace[j].kind = "calculated" /\ trace[j].level = 2
        /\ raw_data[trace[i].variable] # Absent
        /\ raw_data[trace[i].variable] # trace[i].value
        /\ \E k \in DOMAIN trace[j].lookups :
              trace[j].lookups[k].name = trace[i].variable

\* The steps of the run that are the year-to-date block
YtdSteps == {i \in DOMAIN trace : trace[i].kind = "ytd"}

\* C10: for every dependency order, a run that has gone through its levels
\* has executed the year-to-date block exactly once, after every level-3
\* variable and before any level-4 variable.
C10_YtdExactlyOnce ==
    pc \in {"validate", "write", "done"} =>
        /\ Cardinality(YtdSteps) = 1
        /\ \A i \in YtdSteps : \A j \in DOMAIN trace \ YtdSteps :
              /\ trace[j].level <= 3 => j < i
              /\ trace[j].level >= 4 => j > i

\* Whether a stored report counts for month mo of the report's year: same
\* client, same year, a full month, and a value for hhs
CountsForMonth(rec, mo) ==
    /\ rec.client_record_id = client_record_id
    /\ rec.year = YearOf(date_end)
    /\ rec.is_full_month
    /\ rec.month = mo
    /\ rec.fields["hhs"] \notin {Absent, None}
MonthHasData(mo) ==
    \E i \in DOMAIN generated_reports : CountsForMonth(generated_reports[i], mo)
MonthValue(mo) ==
    generated_reports[CHOOSE i \in DOMAIN generated_reports :
                         CountsForMonth(generated_reports[i], mo)].fields["hhs"]
\* The values of the months before the report's month that have data, added up
RECURSIVE SumBefore(_)
SumBefore(mo) ==
    IF mo = 0 THEN [m |-> 0, e |-> 0]
    ELSE IF MonthHasData(mo) THEN DecAdd(SumBefore(mo - 1), MonthValue(mo))
    ELSE SumBefore(mo - 1)
\* ... plus the current period's value when the context has one
ExpectedYtd ==
    IF get_value(Ctx, "hhs") # None
    THEN DecAdd(SumBefore(MonthOf(date_end) - 1), get_value(Ctx, "hhs"))
    ELSE SumBefore(MonthOf(date_end) - 1)
\* Every previous month without data is marked "missing" in the detail map,
\* every one with data carries its value
GapsMarked ==
    \A mo \in 1..(MonthOf(date_end) - 1) :
        IF MonthHasData(mo) THEN PyEq(ytd_metadata.months[mo], MonthValue(mo))
        ELSE ytd_metadata.months[mo] = Missing
\* The year-to-date block has run on a report with previous months, and the
\* stored reports could be read
YtdOverPreviousMonths ==
    YtdSteps # {} /\ MonthOf(date_end) > 1 /\ store_ok
SomethingToSum ==
    get_value(Ctx, "hhs") # None \/ \E mo \in 1..(MonthOf(date_end) - 1) : MonthHasData(mo)

C12_WitnessNoData ==
    /\ YtdSteps # {} /\ MonthOf(date_end) = 1
    /\ get_value(Ctx, "hhs") = None
    /\ calculated_values["hhs_ytd"] = None

\* The messages and flags that validation left for a variable
HardErrors(var) ==
    {i \in DOMAIN errors : errors[i].msg = "validation_error" /\ errors[i].variable = var}
SoftWarnings(var) ==
    {i \in DOMAIN warnings :
        warnings[i].msg = "expected_range_warning" /\ warnings[i].variable = var}
HardFlags(var) == {i \in DOMAIN validation_flags : validation_flags[i].variable = var}
SoftFlags(var) == {i \in DOMAIN expected_flags : expected_flags[i].variable = var}
FailsHard(var) ==
    ~validate_value(calculated_values[var], report_variables[var].Validation_Rules)
FailsSoft(var) ==
    ~check_expected_range(calculated_values[var], report_variables[var].Expected_Values)
BothRules(var) ==
    /\ calculated_values[var] # Absent
    /\ report_variables[var].in_catalog
    /\ report_variables[var].Validation_Rules # NoRule
    /\ report_variables[var].Expected_Values # NoRule

\* C13: once validation has run, a calculated value with both kinds of rule
\* has one validation error and one validation flag exactly when it fails its
\* Validation_Rules, and one expected-range warning and one expected flag
\* exactly when it fails its Expected_Values, each whatever the other does.
C13_HardSoftIndependence ==
    pc \in {"write", "done"} =>
        \A var \in AllVars : BothRules(var) =>
            /\ Cardinality(HardErrors(var)) = (IF FailsHard(var) THEN 1 ELSE 0)
            /\ Cardinality(HardFlags(var)) = (IF FailsHard(var) THEN 1 ELSE 0)
            /\ Cardinality(SoftWarnings(var)) = (IF FailsSoft(var) THEN 1 ELSE 0)
            /\ Cardinality(SoftFlags(var)) = (IF FailsSoft(var) THEN 1 ELSE 0)

\* a = 2.0 fails ">= 0 AND <= 1" and passes "> 0 AND < 5"
C13_Witness ==
    /\ pc \in {"write", "done"}
    /\ BothRules("a") /\ FailsHard("a") /\ ~FailsSoft("a")
    /\ Cardinality(HardErrors("a")) = 1 /\ SoftWarnings("a") = {}
\* a = 0 passes the first and fails the second
C13_WitnessSoftOnly ==
    /\ pc \in {"write", "done"}
    /\ BothRules("a") /\ ~FailsHard("a") /\ FailsSoft("a")
    /\ Cardinality(SoftWarnings("a")) = 1 /\ HardErrors("a") = {}
\* a = 7 fails both
C13_WitnessBoth ==
    /\ pc \in {"write", "done"}
    /\ BothRules("a") /\ FailsHard("a") /\ FailsSoft("a")

\* C14: when calculate_all_variables has returned, its result is success
\* exactly when the error list is empty; a value outside its expected range
\* has added a warning and no error.
C14_SuccessIffNoErrors ==
    pc \in {"write", "done"} =>
        /\ pc = "write" => call.op = "calculate_all_variables"
        /\ call.success <=> errors = <<>>
        /\ \A i \in DOMAIN expected_flags :
              /\ SoftWarnings(expected_flags[i].variable) # {}
              /\ ~FailsHard(expected_flags[i].variable) =>
                    HardErrors(expected_flags[i].variable) = {}

\* A run whose only finding is a value outside its expected range: it succeeds
C14_Witness ==
    /\ pc \in {"write", "done"}
    /\ expected_flags # <<>>
    /\ warnings # <<>>
    /\ errors = <<>>
    /\ call.success
\* A run with an error: it fails
C14_WitnessFailed ==
    /\ pc \in {"write", "done"}
    /\ errors # <<>>
    /\ ~call.success

\* The step just taken resolved a level-0 variable of the catalog to nothing
Level0CameUpEmpty ==
    /\ pc = "level0"
    /\ Len(trace') = Len(trace) + 1
    /\ trace'[Len(trace')].kind = "resolved"
    /\ trace'[Len(trace')].value = None
    /\ report_variables[trace'[Len(trace')].variable].in_catalog

\* C15: when the resolver returns nothing for a level-0 variable of the
\* catalog, the step appends exactly one warning naming the variable, leaves
\* the error list, the values and the fallback log as they were, and the loop
\* goes on to the next variable of the level.
C15_MissingLevel0NonFatal ==
    [][Level0CameUpEmpty =>
          /\ warnings' = Append(warnings, Message("Level 0 variable has no value",
                                                  trace'[Len(trace')].variable, ""))
          /\ errors' = errors
          /\ calculated_values' = calculated_values
          /\ calculated_values'[trace'[Len(trace')].variable] = Absent
          /\ fallback_log' = fallback_log
          /\ pc' = "level0" /\ idx' = idx + 1]_vars

\* p came up empty and was warned about, and hhs was resolved after it
C15_Witness ==
    /\ Len(trace) >= 2
    /\ trace[1].kind = "resolved" /\ trace[1].variable = "p" /\ trace[1].value = None
    /\ report_variables["p"].in_catalog
    /\ trace[2].kind = "resolved" /\ trace[2].variable = "hhs" /\ trace[2].value = IntV(8)
    /\ \E i \in DOMAIN warnings : warnings[i].variable = "p"
    /\ calculated_values["p"] = Absent
    /\ \A i \in DOMAIN errors : errors[i].variable # "p"

NotFoundErrors(var) ==
    {i \in DOMAIN errors :
        errors[i].msg = "Variable not found in Report_Variables" /\ errors[i].variable = var}

\* C16: once the run has gone through its levels, every variable that the
\* dependency order names at any level 0..5 and that is absent from the
\* catalog has an error naming it.
C16_CatalogAbsentSurfaced ==
    pc \in {"write", "done"} =>
        \A l \in 0..5 : \A i \in DOMAIN calculation_order[l] :
            ~report_variables[calculation_order[l][i]].in_catalog =>
                NotFoundErrors(calculation_order[l][i]) # {}

\* The same for the levels 1..5 alone, where the code does append the error
AbsentSurfacedAboveLevel0 ==
    pc \in {"write", "done"} =>
        \A l \in 1..5 : \A i \in DOMAIN calculation_order[l] :
            ~report_variables[calculation_order[l][i]].in_catalog =>
                Cardinality(NotFoundErrors(calculation_order[l][i])) = 1
AbsentAtLevel4 ==
    /\ pc \in {"write", "done"}
    /\ calculation_order = OrderFull
    /\ ~report_variables["z"].in_catalog
    /\ NotFoundErrors("z") # {}

\* The step just taken was a formula of a level from 1 to 5 that failed
FormulaJustFailed ==
    /\ pc = "levels"
    /\ Len(trace') = Len(trace) + 1
    /\ trace'[Len(trace')].kind = "error"
\* The last entry of the fallback log after the step
LastFallback == fallback_log'[Len(fallback_log')]

\* C17: when the formula of a level 1-5 variable fails, the step appends an
\* error naming the variable; when the fallback chain then yields a value v
\* the variable's value is v and the fallback log ends with an entry for it
\* with source "fallback_after_error"; when the chain yields nothing the
\* values and the fallback log stay as they were; either way the loop goes
\* on to the next variable of the level.
C17_FallbackAfterFormulaFailure ==
    [][FormulaJustFailed =>
          /\ Len(errors') = Len(errors) + 1
          /\ SubSeq(errors', 1, Len(errors)) = errors
          /\ errors'[Len(errors')].msg = "Error calculating"
          /\ errors'[Len(errors')].variable = trace'[Len(trace')].variable
          /\ trace'[Len(trace')].value # None =>
                /\ calculated_values'[trace'[Len(trace')].variable] = trace'[Len(trace')].value
                /\ fallback_log' # <<>>
                /\ LastFallback.variable = trace'[Len(trace')].variable
                /\ LastFallback.value = trace'[Len(trace')].value
                /\ LastFallback.source = "fallback_after_error"
          /\ trace'[Len(trace')].value = None =>
                /\ calculated_values' = calculated_values
                /\ fallback_log' = fallback_log
          /\ pc' = "levels" /\ level' = level /\ idx' = idx + 1]_vars

\* {b} / {hhs} failed on hhs = 0 and the global default 50 took its place
C17_Witness ==
    /\ trace # <<>>
    /\ trace[Len(trace)].kind = "error"
    /\ trace[Len(trace)].variable = "v"
    /\ trace[Len(trace)].value = IntV(50)
    /\ calculated_values["v"] = IntV(50)
    /\ fallback_log # <<>>
    /\ fallback_log[Len(fallback_log)].source = "fallback_after_error"
    /\ \E i \in DOMAIN errors : errors[i].msg = "Error calculating" /\ errors[i].variable = "v"
\* A failed formula without a fallback, and the next level's variable tried after it
C17_WitnessUnresolved ==
    \E i \in DOMAIN trace :
        /\ trace[i].kind = "error" /\ trace[i].variable = "a" /\ trace[i].value = None
        /\ i < Len(trace) /\ trace[i + 1].variable = "b"
        /\ calculated_values["a"] = Absent

\* C18: at the start of level 0, before any variable is resolved, the
\* converted set and the conversion log are both empty, whatever the tracker
\* held when the run began.
C18_TrackerResetAtStart ==
    (pc = "level0" /\ idx = 1) =>
        /\ converted_variables = {}
        /\ conversion_log = <<>>

\* The start of level 0 of a run on a tracker that had converted p before
C18_Witness ==
    /\ pc = "level0" /\ idx = 1
    /\ call.op = "safe_percentage_conversion"
    /\ ConvertedBefore.conv = {"p"} /\ Len(ConvertedBefore.log) = 1
    /\ converted_variables = {} /\ conversion_log = <<>>

\* The last call converted a number under a name that was not marked
NumberOnUnmarkedName ==
    /\ call.op = "convert"
    /\ ~call.was_marked
    /\ IsNum(call.value_in)
OneHundredth(v, w) == v.m * 100 * Pow10(w.e) = w.m * Pow10(v.e)
LastConversion == conversion_log[Len(conversion_log)]

C19_Witness150 ==
    /\ NumberOnUnmarkedName
    /\ call.value_in = IntV(150) /\ call.value = FloatV(15, 1) /\ call.was_converted
\* 0.25 stayed 0.25 and the name stayed unmarked
C19_WitnessFraction ==
    /\ NumberOnUnmarkedName
    /\ call.value_in = FloatV(25, 2) /\ call.value = FloatV(25, 2)
    /\ ~call.was_converted /\ call.name \notin converted_variables

\* C20: a call on a name not yet marked, with the number 1.0, returns 1.0
\* with was_converted = False and leaves the name unmarked and the conversion
\* log as it was.
C20_AmbiguousOneUnconverted ==
    (NumberOnUnmarkedName /\ PyEq(call.value_in, FloatV(1, 0))) =>
        /\ call.outcome = "returned"
        /\ PyEq(call.value, FloatV(1, 0))
        /\ ~call.was_converted
        /\ call.name \notin converted_variables

\* A string that is no number: float() refuses it, and when it ends in '%'
\* float() refuses what stands before the '%' as well
Unparsable(v) ==
    /\ v.t = "str"
    /\ ~PyFloat(v).ok
    /\ (Len(Strip(v.s)) > 0 /\ Strip(v.s)[Len(Strip(v.s))] = "%") =>
          ~FloatOfStr(SubSeq(Strip(v.s), 1, Len(Strip(v.s)) - 1)).ok
\* A string float() refuses, handed in for a name that is already marked
UnparsableForMarked(v) == v.t = "str" /\ ~PyFloat(v).ok

\* C21: every call of the conversion returns; a value that is no number,
\* and any value float() refuses when the name is already marked, comes back
\* unchanged with was_converted = False and the name is not newly marked.
C21_ConversionNeverRaises ==
    call.op = "convert" =>
        /\ call.outcome = "returned"
        /\ (Unparsable(call.value_in)
              \/ (call.was_marked /\ UnparsableForMarked(call.value_in))) =>
              /\ call.value = call.value_in
              /\ ~call.was_converted
              /\ call.name \in converted_variables <=> call.was_marked

\* What does hold: "abc" on a name that is not marked comes back unchanged
UnparsableOnUnmarkedReturned ==
    (call.op = "convert" /\ ~call.was_marked /\ call.value_in = StrV(<<"a", "b", "c">>)) =>
        /\ call.outcome = "returned"
        /\ call.value = call.value_in
        /\ ~call.was_converted
        /\ call.name \notin converted_variables
\* The two calls that raise
RaisedOnMarkedName ==
    call.op = "convert" /\ call.was_marked /\ call.outcome = "raised"
      /\ call.value_in = StrV(<<"a", "b", "c">>)
RaisedOnPercentBody ==
    call.op = "convert" /\ ~call.was_marked /\ call.outcome = "raised"
      /\ call.value_in = StrV(<<"x", "%">>)

\* The year-to-date block has run and reading the stored reports raised
YtdQueryFailed ==
    YtdSteps # {} /\ MonthOf(date_end) > 1 /\ ~store_ok

\* C22: when reading the stored reports raises during the year-to-date
\* block, the block yields "No Data" with a reason, hhs_ytd has no usable
\* value, the failure is in the error list and the reason in the warnings,
\* and the run still goes through the variables of level 4, level 5 and the
\* validation.
C22_YtdFailureContained ==
    YtdQueryFailed =>
        /\ calculated_values["hhs_ytd"] = None
        /\ \A i \in YtdSteps : trace[i].value = None
        /\ ytd_metadata.reason = "YTD calculation failed"
        /\ \A mo \in 1..12 : ytd_metadata.months[mo] = Absent
        /\ \E i \in DOMAIN errors :
              errors[i].msg = "Error in YTD calculation"
        /\ \E i \in DOMAIN warnings :
              warnings[i].variable = "hhs_ytd" /\ warnings[i].detail = ytd_metadata.reason
        /\ \E i \in DOMAIN fallback_log :
              fallback_log[i].variable = "hhs_ytd" /\ fallback_log[i].source = "no_data"
        /\ pc \in {"write", "done"} =>
              /\ \A k \in DOMAIN calculation_order[4] : \E j \in DOMAIN trace :
                    /\ trace[j].level = 4
                    /\ trace[j].variable = calculation_order[4][k]
                    /\ \A i \in YtdSteps : i < j
              /\ pc = "write" => call.op = "calculate_all_variables" /\ ~call.success

\* A March run whose store cannot be read, gone through level 4 and validated
C22_Witness ==
    /\ YtdQueryFailed
    /\ pc = "write"
    /\ calculated_values["hhs_ytd"] = None
    /\ \E j \in DOMAIN trace : trace[j].level = 4 /\ trace[j].variable = "z"
    /\ call.op = "calculate_all_variables"

\* A value in percentage representation: a number of at least 1, or a string
\* "n%"
PercentageRepresentation(v) ==
    \/ IsNum(v) /\ GeOne(v)
    \/ v.t = "str" /\ parse_numeric_value(v).ok /\ ~PyFloat(v).ok
\* value / 100
AsFraction(v) == IF IsNum(v) THEN FloatV(v.m, v.e + 2) ELSE parse_numeric_value(v).val
\* The formulas of the run that reached a placeholder of name (every
\* placeholder before it stood for a number) and found name's value in
\* percentage representation: pairs of step and placeholder
PercentLookups(name) ==
    {ik \in (DOMAIN trace) \X (1..2) :
        /\ ik[2] \in DOMAIN trace[ik[1]].lookups
        /\ trace[ik[1]].lookups[ik[2]].name = name
        /\ PercentageRepresentation(trace[ik[1]].lookups[ik[2]].value)
        /\ \A k \in 1..(ik[2] - 1) : IsNum(trace[ik[1]].lookups[k].value)}
GotFraction(ik) ==
    /\ ik[2] \in DOMAIN trace[ik[1]].operands
    /\ PyEq(trace[ik[1]].operands[ik[2]].value,
            AsFraction(trace[ik[1]].lookups[ik[2]].value))
PercentageTyped(name) ==
    report_variables[name].in_catalog /\ report_variables[name].Data_Type = "percentage"

\* C23: every formula of the run that references a percentage-typed variable
\* whose stored value is in percentage representation, the first and every
\* later one, receives value / 100 as its operand.
C23_PercentOperandsConsistent ==
    \A name \in AllVars : PercentageTyped(name) =>
        \A ik \in PercentLookups(name) : GotFraction(ik)

\* The first formula that references such a variable does receive value / 100
FirstPercentOperandIsFraction ==
    \A name \in AllVars : PercentageTyped(name) =>
        \A ik \in PercentLookups(name) :
            (\A jk \in PercentLookups(name) : ik[1] <= jk[1]) => GotFraction(ik)
\* p = 25 in the report: {hhs} * {p} computed with 0.25, {p} + 1 with 25.0
SecondFormulaGetsPoints ==
    /\ raw_data["p"] = IntV(25)
    /\ \E ik, jk \in PercentLookups("p") :
          /\ ik[1] < jk[1]
          /\ GotFraction(ik)
          /\ jk[2] \in DOMAIN trace[jk[1]].operands
          /\ PyEq(trace[jk[1]].operands[jk[2]].value, IntV(25))
\* p = "25%" in the report: {p} + 1 fails, the second float("25%") raising
SecondFormulaFails ==
    /\ raw_data["p"] = PctText
    /\ \E ik, jk \in PercentLookups("p") :
          /\ ik[1] < jk[1]
          /\ GotFraction(ik)
          /\ trace[jk[1]].kind = "error" /\ trace[jk[1]].operands = <<>>

\* The variables whose formula divided by zero in this run
DividedByZero ==
    {errors[i].variable : i \in {j \in DOMAIN errors :
        errors[j].msg = "Error calculating" /\ errors[j].detail = "Division by zero in formula"}}

\* C24: a variable of level 1-5 whose formula divided by zero has the error
\* note in the error list and the value 0, with or without fallback slots.
C24_DivisionByZeroUsable ==
    \A var \in DividedByZero :
        /\ calculated_values[var] # Absent
        /\ PyEq(calculated_values[var], IntV(0))

\* {b} / {hhs} with hhs = 0 and no fallback slot: v is left without a value
DivisionByZeroUnresolved ==
    /\ "v" \in DividedByZero
    /\ report_variables["v"].fallback_1 = "" /\ report_variables["v"].fallback_2 = ""
    /\ calculated_values["v"] = Absent
    /\ get_value(Ctx, "v") = None
\* The same with the fallback global_default: v is the default 50
DivisionByZeroFallback ==
    /\ "v" \in DividedByZero
    /\ report_variables["v"].fallback_1 = "global_default"
    /\ calculated_values["v"] = IntV(50)

\* The entries of the fallback log for a variable
FallbackEntries(var) == {i \in DOMAIN fallback_log : fallback_log[i].variable = var}

\* C25: when calculate_all_variables has returned, the fallback log holds at
\* most one entry for each variable.
C25_OneFallbackEntryPerVariable ==
    pc \in {"write", "done"} =>
        \A var \in AllVars : Cardinality(FallbackEntries(var)) <= 1

\* The formula of v failed and the global default was taken: one entry by
\* the resolver, one by the orchestrator
TwoEntriesAfterFormulaError ==
    /\ pc \in {"write", "done"}
    /\ \E i, j \in FallbackEntries("v") :
          /\ i < j
          /\ fallback_log[i].source = "global_default"
          /\ fallback_log[j].source = "fallback_after_error"
          /\ fallback_log[i].value = fallback_log[j].value
\* What does hold: a variable resolved at level 0 has at most one entry
OneEntryAtLevel0 ==
    pc \in {"write", "done"} =>
        \A k \in DOMAIN calculation_order[0] :
            Cardinality(FallbackEntries(calculation_order[0][k])) <= 1

\* The levels of the saved order that list the variable
LevelsOf(var) ==
    {l \in DOMAIN calculation_order :
        \E i \in DOMAIN calculation_order[l] : calculation_order[l][i] = var}

\* The orchestrator came to the variable: a step of the run is about it,
\* or the context holds a value, an error or a warning for it.
Visited(var) ==
    \/ \E i \in DOMAIN trace : trace[i].variable = var
    \/ calculated_values[var] # Absent
    \/ \E i \in DOMAIN errors : errors[i].variable = var
    \/ \E i \in DOMAIN warnings : warnings[i].variable = var

\* C26: once the level loops of calculate_all_variables are over, every
\* variable the leveler placed at some level of the calculation order has
\* been processed (resolved, calculated, or reported in errors or warnings).
C26_NoLeveledVariableDropped ==
    pc \in {"validate", "write", "done"} =>
        \A l \in DOMAIN calculation_order :
            \A i \in DOMAIN calculation_order[l] : Visited(calculation_order[l][i])

\* The variables of the levels the loops range over are all visited.
LevelsUpToFiveVisited ==
    pc \in {"validate", "write", "done"} =>
        \A l \in (DOMAIN calculation_order) \cap (0..5) :
            \A i \in DOMAIN calculation_order[l] : Visited(calculation_order[l][i])

\* A run ends with a variable of level 6 that no step touched.
DroppedAtLevelSix ==
    /\ pc = "done"
    /\ MaxDepth \in DOMAIN calculation_order
    /\ \E i \in DOMAIN calculation_order[MaxDepth] :
          ~Visited(calculation_order[MaxDepth][i])

\* C29: in the order the leveler produces for a dependency graph, level 0
\* holds exactly the variables without dependencies, and every variable at
\* a level N > 0 has each of its dependencies at a level strictly below N;
\* no variable is listed at two levels.
C29_LeveledDependencyOrder ==
    pc # "analyze" /\ dependency_graph # <<>> =>
        \A x \in DOMAIN dependency_graph :
            /\ Cardinality(LevelsOf(x)) <= 1
            /\ (0 \in LevelsOf(x)) <=> (dependency_graph[x] = <<>>)
            /\ \A n \in LevelsOf(x) :
                  \A i \in DOMAIN dependency_graph[x] :
                      /\ LevelsOf(dependency_graph[x][i]) # {}
                      /\ \A m \in LevelsOf(dependency_graph[x][i]) : m < n

\* The leveler placed a variable above two dependencies of different
\* levels, and left a variable with an unknown dependency out of the order.
C29_Witness ==
    /\ pc = "idle"
    /\ dependency_graph # <<>>
    /\ \E x \in DOMAIN dependency_graph :
          /\ Len(dependency_graph[x]) = 2
          /\ \E n \in LevelsOf(x) :
                /\ n >= 3
                /\ LevelsOf(dependency_graph[x][1]) # LevelsOf(dependency_graph[x][2])
    /\ \E y \in DOMAIN dependency_graph :
          dependency_graph[y] # <<>> /\ LevelsOf(y) = {}

\* The stored reports the lookup may answer from: of the client, full
\* periods, ending before the given day and inside the lookback window,
\* with a non-null value for the variable.
Eligible(variable, before) ==
    {i \in DOMAIN generated_reports :
        /\ generated_reports[i].client = client_id
        /\ generated_reports[i].is_full_month
        /\ generated_reports[i].date_end < before
        /\ generated_reports[i].date_end >
              date_end - report_variables[variable].previous_period_max * 30
        /\ generated_reports[i].fields[variable] \notin {Absent, None}}

\* The value of the eligible report with the latest period end, if any
LatestEligible(variable, before) ==
    IF Eligible(variable, before) = {} THEN None
    ELSE LET i == CHOOSE k \in Eligible(variable, before) :
                      \A j \in Eligible(variable, before) :
                          generated_reports[j].date_end <= generated_reports[k].date_end
         IN generated_reports[i].fields[variable]

\* resolve_value came to the first fallback slot, a previous-period lookup.
LookedBack ==
    /\ call.op = "resolve"
    /\ call.tried # <<>>
    /\ call.tried[1] = 1
    /\ report_variables[call.variable].fallback_1 = "previous_period"

\* The value resolve_value returned is the one the lookup found.
FromLookup ==
    /\ call.ret # None
    /\ fallback_log # call.fl_before
    /\ LastEntry(fallback_log).source = "previous_period(6mo)"

\* What the lookup must have answered, given the day records must end before
LookupAnswers(before) ==
    LookedBack =>
        /\ FromLookup <=> (LatestEligible(call.variable, before) # None)
        /\ (FromLookup /\ report_variables[call.variable].Data_Type # "percentage")
              => call.ret = LatestEligible(call.variable, before)

Joined(op, sofar, next) == IF op = "and" THEN sofar /\ next ELSE sofar \/ next

\* ((c1 op1 c2) op2 c3) for a rule of up to three comparisons
LeftToRight(value, rule) ==
    LET c(i) == ConditionHolds(parse_numeric_value(value).val, rule.conds[i])
    IN  CASE Len(rule.conds) = 1 -> c(1)
          [] Len(rule.conds) = 2 -> Joined(rule.ops[1], c(1), c(2))
          [] OTHER -> Joined(rule.ops[2], Joined(rule.ops[1], c(1), c(2)), c(3))

\* The variables that hold a number and have a rule of comparisons
Compared(rule_of) ==
    {x \in AllVars :
        /\ report_variables[x].in_catalog
        /\ IsNum(calculated_values[x])
        /\ rule_of[x].kind = "expr"
        /\ rule_of[x].conds # <<>>}
HardRules == [x \in AllVars |-> report_variables[x].Validation_Rules]
SoftRules == [x \in AllVars |-> report_variables[x].Expected_Values]
Flagged(flags, var) == \E i \in DOMAIN flags : flags[i].variable = var

\* C28: once the values are validated, a variable is flagged by the hard
\* pass exactly when its validation rule, combined strictly left to right
\* as ((c1 op1 c2) op2 c3), is false for its value, and flagged by the soft
\* pass exactly when its expected range, combined the same way, is false.
C28_LeftToRightCombination ==
    pc \in {"write", "done"} =>
        /\ \A x \in Compared(HardRules) :
              Flagged(validation_flags, x) <=> ~LeftToRight(calculated_values[x], HardRules[x])
        /\ \A x \in Compared(SoftRules) :
              Flagged(expected_flags, x) <=> ~LeftToRight(calculated_values[x], SoftRules[x])

\* a = 2 fails "<= 5 OR >= 100 AND >= 50" as (A OR B) AND C although A
\* holds, and passes the expected range of the same shape; b = 3 the
\* other way round.
C28_Witness ==
    /\ pc = "done"
    /\ calculated_values["a"] = FloatV(2, 0)
    /\ HardRules["a"] = OrThenAnd(5, 100, 50)
    /\ Flagged(validation_flags, "a")
    /\ ~Flagged(expected_flags, "a")
    /\ calculated_values["b"] = FloatV(3, 0)
    /\ SoftRules["b"] = OrThenAnd(5, 100, 50)
    /\ Flagged(expected_flags, "b")
    /\ ~Flagged(validation_flags, "b")

\* Both requests were let through to processing, for the same report, the
\* second arriving within the TTL of the first.
BothProcessed(first, second) ==
    /\ first # second
    /\ requests[first].pc \in {"process", "done"}
    /\ requests[second].pc \in {"process", "done"}
    /\ requests[first].report_id = requests[second].report_id
    /\ requests[second].current_time >= requests[first].current_time
    /\ requests[second].current_time - requests[first].current_time <= CACHE_TTL

\* C30: whatever the interleaving of the handlers, two requests for the
\* same endpoint and report_id, the second arriving within 300 seconds of
\* the first accepted one, never both start processing.
C30_NoDoubleProcessing ==
    \A first \in DOMAIN requests : \A second \in DOMAIN requests :
        ~BothProcessed(first, second)

\* Requests whose duplicate checks did not overlap any other's are
\* deduplicated.
SequentialDeduplicated ==
    \A first \in DOMAIN requests : \A second \in DOMAIN requests :
        BothProcessed(first, second) =>
            requests[first].overlapped \/ requests[second].overlapped

\* A later request for the same report within the TTL got the duplicate
\* answer, and one after the TTL was processed again.
DuplicateAnswered ==
    \E first \in DOMAIN requests : \E second \in DOMAIN requests :
        /\ requests[first].pc = "done"
        /\ requests[second].pc = "duplicate"
        /\ ~requests[second].overlapped
        /\ requests[first].report_id = requests[second].report_id
        /\ requests[second].current_time - requests[first].current_time = CACHE_TTL

====
